---- MODULE Spec2Model ----
(***************************************************************************)
(* Verification model of the tailor LiDAR odometry pipeline:               *)
(*   - local_map: the 20-slot keyframe ring with its cached fused map      *)
(*     (src/src/mapping.cpp, struct local_map);                            *)
(*   - visual_odom_v2: update_current_frame / mapping / loop_detection     *)
(*     (src/src/mapping.cpp);                                              *)
(*   - feature_thread and mapping_thread: the two queue-fed workers and    *)
(*     their destructors (src/src/features.cpp, src/src/mapping.cpp).      *)
(*   - remove_degenerate and LM2: the registration loop                    *)
(*     (src/src/mapping.cpp);                                              *)
(*   - the constructors of the two stages.                                 *)
(*                                                                         *)
(* The specifications share the definitions:                               *)
(*   SpecRing     - a local_map driven by arbitrary push / set / get calls;*)
(*   SpecOdom     - a visual_odom_v2 driven by arbitrary mapping() calls;  *)
(*   SpecStatic   - a visual_odom_v2 fed a static scene;                   *)
(*   SpecPipe     - producer, workers and destructors interleaved          *)
(*                  (SpecPipeFair adds the scheduler's fairness);          *)
(*   SpecFeatures - the feature worker under every sensor selection;       *)
(*   SpecCtor     - the two constructors under every parameter set;        *)
(*   SpecLM2      - one LM2 call under every outcome of Ab;                *)
(*   SpecStartup  - mapping_thread's constructor, statement by statement,  *)
(*                  racing its worker and the producer.                    *)
(***************************************************************************)
EXTENDS Integers, Sequences, FiniteSets, TLC

VARIABLES
    lmap,        \* SpecRing: one local_map object
    pushes,      \* SpecRing: number of push calls made so far (history)
    edits,       \* SpecRing: number of set / get_local_map calls made so far
    last,        \* SpecRing: the last call, its arguments and the object before it
    vo,          \* the visual_odom_v2 object (mapping_v2 of the mapping worker)
    calls,       \* number of mapping() calls made with freely chosen inputs
    run,         \* number of mapping() calls made by the scripted run
    vo_pushes,   \* total number of local_maps.push calls made (history)
    lastCall,    \* the last mapping() call: inputs, object before it, results
    sensors,     \* feature_thread: use_velodyne and use_livox
    f_q,         \* feature_thread::q, the queue of synced messages
    f_pq,        \* feature worker: the batch it acquired (pq)
    f_pc,        \* feature worker: where it is in __features_thread
    f_stop,      \* feature_thread::should_stop
    f_dtor,      \* where ~feature_thread is
    m_q,         \* mapping_thread::q, the queue of (message, frame) pairs
    m_pq,        \* mapping worker: the batch it acquired (pq)
    m_pc,        \* mapping worker: where it is in __mapping_thread
    m_stop,      \* mapping_thread::should_stop
    m_dtor,      \* where ~mapping_thread is
    sent,        \* number of messages the sync layer has pushed (history)
    published,   \* messages passed to feature_frame_delegate, in order (history)
    mapped,      \* messages passed to visual_odom_v2::mapping, in order (history)
    late,        \* per stage, the items pushed while should_stop was set (history)
    dropped,     \* per stage, the items the worker discarded unprocessed (history)
    save_path,   \* __mapping_thread: the parameter /tailor/mapping_save_path
    trace_files, \* the files save_traces has written, each as its lines
    pub_path,    \* messages whose pose and path the mapping worker published (history)
    f_last,      \* feature worker: the last message it examined and what was found
    nh,          \* the parameters the constructors read through ros::NodeHandle
    stages,      \* what the constructors of feature_thread and mapping_thread did
    startup,     \* SpecStartup: mapping_thread's constructor racing its worker
    lm2          \* one LM2 call: its loop counter, estimate and what it returned

ringVars == <<lmap, pushes, edits, last>>

odomVars == <<vo, calls, run, vo_pushes, lastCall>>

odomHistory == <<calls, run, vo_pushes, lastCall>>

pipeVars == <<sensors, f_q, f_pq, f_pc, f_stop, f_dtor, m_q, m_pq, m_pc, m_stop,
              m_dtor, sent, published, mapped, late, dropped, save_path, trace_files,
              pub_path, f_last>>

vars == <<lmap, pushes, edits, last, vo, calls, run, vo_pushes, lastCall,
          sensors, f_q, f_pq, f_pc, f_stop, f_dtor, m_q, m_pq, m_pc, m_stop,
          m_dtor, sent, published, mapped, late, dropped, save_path, trace_files,
          pub_path, f_last, nh, stages, startup, lm2>>

ctorVars == <<nh, stages, startup>>

regVars == <<lm2>>

(***************************************************************************)
(* Transform (six scalars) and Eigen::Matrix4d.                            *)
(*                                                                         *)
(* Scalars are integers in units of 0.01 (metres or radians).  A rigid     *)
(* body matrix is kept as its translation and rotation parts; products     *)
(* and inverses are taken in the commutative group Z^6, which is exact     *)
(* for the pure translations and single-axis rotations used as inputs      *)
(* here.  A matrix that was never assigned has init = FALSE.               *)
(***************************************************************************)
MkTransform(x, y, z, roll, pitch, yaw) ==
    [x |-> x, y |-> y, z |-> z, roll |-> roll, pitch |-> pitch, yaw |-> yaw]

ZeroTransform == MkTransform(0, 0, 0, 0, 0, 0)

Identity == [t |-> <<0, 0, 0>>, r |-> <<0, 0, 0>>, init |-> TRUE]

Uninitialized == [t |-> <<0, 0, 0>>, r |-> <<0, 0, 0>>, init |-> FALSE]

to_eigen(Tr) ==
    [t |-> <<Tr.x, Tr.y, Tr.z>>, r |-> <<Tr.roll, Tr.pitch, Tr.yaw>>, init |-> TRUE]

MatMul(A, B) ==
    [t |-> [i \in 1..3 |-> A.t[i] + B.t[i]],
     r |-> [i \in 1..3 |-> A.r[i] + B.r[i]],
     init |-> A.init /\ B.init]

MatInverse(A) ==
    [t |-> [i \in 1..3 |-> 0 - A.t[i]],
     r |-> [i \in 1..3 |-> 0 - A.r[i]],
     init |-> A.init]

(***************************************************************************)
(* feature_frame: the capture it was computed from (id) and, per sensor,   *)
(* the sizes of its optional sub-clouds; Absent is a null cloud pointer.   *)
(***************************************************************************)
Absent == -1

MkFrame(id, vl, vp, lp, ln) ==
    [id |-> id,
     velodyne_feature |->
         [line_features |-> vl, plane_features |-> vp, non_features |-> Absent],
     livox_feature |->
         [line_features |-> Absent, plane_features |-> lp, non_features |-> ln]]

EmptyFrame == MkFrame(0, Absent, Absent, Absent, Absent)

GoodFrame(id) == MkFrame(id, 20, 100, 100, 100)

(***************************************************************************)
(* struct local_map                                                        *)
(***************************************************************************)
previous_frame_count == 20

Slots == 0 .. previous_frame_count - 1

\* The object after construction: head = previous_frame_count - 1,
\* counters = 0, default-constructed frames, unassigned matrices, an empty
\* cached map that is marked dirty.
NewLocalMap ==
    [head |-> previous_frame_count - 1,
     counters |-> 0,
     prev_frames |-> [i \in Slots |-> EmptyFrame],
     prev_frame_location |-> [i \in Slots |-> Uninitialized],
     local_map |-> <<>>,
     local_map_dirty |-> TRUE]

\* update_local_map: the head's clouds are copied as they are (concat), then
\* every slot i < counters contributes its clouds under inverse(head) * M_i.
\* The fused map is the sequence of contributions (frame, transform).
update_local_map(lm) ==
    LET transform == MatInverse(lm.prev_frame_location[lm.head])
        Contribution(i) ==
            [frame |-> lm.prev_frames[i],
             transform |-> MatMul(transform, lm.prev_frame_location[i])]
    IN  <<[frame |-> lm.prev_frames[lm.head], transform |-> Identity]>>
        \o [k \in 1 .. lm.counters |-> Contribution(k - 1)]

\* get_local_map: rebuild only when dirty; the object afterwards.  The value
\* returned is the local_map field of the result.
get_local_map(lm) ==
    IF lm.local_map_dirty
    THEN [lm EXCEPT !.local_map = update_local_map(lm), !.local_map_dirty = FALSE]
    ELSE lm

\* Mutant of push: the slot is written before head advances.
push_write_before_advance(lm, frame, transform) ==
    LET h == (lm.head + 1) % previous_frame_count
        c == IF lm.counters < previous_frame_count THEN lm.counters + 1 ELSE lm.counters
    IN  [lm EXCEPT !.head = h,
                   !.counters = c,
                   !.prev_frames[lm.head] = frame,
                   !.prev_frame_location[lm.head] = transform,
                   !.local_map_dirty = TRUE]

push(lm, frame, transform) ==
    LET h == (lm.head + 1) % previous_frame_count
        c == IF lm.counters < previous_frame_count THEN lm.counters + 1 ELSE lm.counters
    IN  [lm EXCEPT !.head = h,
                   !.counters = c,
                   !.prev_frames[h] = frame,
                   !.prev_frame_location[h] = transform,
                   !.local_map_dirty = TRUE]

empty(lm) == lm.counters = 0

size(lm) == lm.counters

tr(lm) == lm.prev_frame_location[lm.head]

\* Mutant of set_index: the wrapped branch is off by one.
set_index_off_by_one(lm, back_index) ==
    IF back_index <= lm.head + 1
    THEN lm.head + 1 - back_index
    ELSE lm.counters + lm.head - back_index

\* The array index set() writes for a back_index.
set_index(lm, back_index) ==
    IF back_index <= lm.head + 1
    THEN lm.head + 1 - back_index
    ELSE lm.counters + lm.head + 1 - back_index

\* set: writes the transform of one slot and nothing else (the dirty flag
\* is not touched).  An index outside the array is not written here.
set(lm, back_index, transform) ==
    LET i == set_index(lm, back_index)
    IN  IF i \in Slots
        THEN [lm EXCEPT !.prev_frame_location[i] = transform]
        ELSE lm

(***************************************************************************)
(* The loop-closure module (loop.h): loop_detection takes one keyframe     *)
(* and answers the index of the first pose it changed (0: none); btr(i)    *)
(* is the pose i steps back from the newest keyframe it holds, tr(j) the   *)
(* pose of its keyframe j.  What it decides is an input (result); a        *)
(* keyframe it does not hold has no pose to give.                          *)
(***************************************************************************)
NewLoop == [keyframes |-> <<>>, loop |-> <<>>]

\* What the module's pose graph relaxation does to a pose it changes.
Corrected(M) == [M EXCEPT !.t = [@ EXCEPT ![3] = @ + 1]]

loop_var_loop_detection(lp, transform, result) ==
    LET kfs == Append(lp.keyframes, transform)
    IN  IF result = 0
        THEN [lp EXCEPT !.keyframes = kfs]
        ELSE [keyframes |->
                  [j \in 1 .. Len(kfs) |->
                      IF j - 1 >= result THEN Corrected(kfs[j]) ELSE kfs[j]],
              loop |->
                  Append(lp.loop, [source_frame_id |-> Len(kfs) - 1,
                                   target_frame_id |-> result])]

loop_var_btr(lp, i) ==
    IF i \in 1 .. Len(lp.keyframes)
    THEN lp.keyframes[Len(lp.keyframes) - i + 1]
    ELSE Uninitialized

loop_var_tr(lp, j) ==
    IF j \in 0 .. Len(lp.keyframes) - 1
    THEN lp.keyframes[j + 1]
    ELSE Uninitialized

(***************************************************************************)
(* remove_degenerate and LM2.                                              *)
(*                                                                         *)
(* ATA is a 6 x 6 matrix with entries in units of 0.5, so the ridge is 1   *)
(* and the default degenerate_threshold 10.0 is 20.  The matrices fed in   *)
(* are diagonal, for which the eigenvalues are the diagonal entries and    *)
(* the QR solve divides row by row.  Steps and estimates are in units of   *)
(* 1e-4, so the bound 1e-7 on a squared step norm is 10.                   *)
(***************************************************************************)
degenerate_threshold == 20

lm2_iterations == 30

lm2_epsilon == 10

Axes == 1 .. 6

\* ATA.eigenvalues(), real parts.
eigenvalues(ATA) == [k \in Axes |-> ATA[k][k]]

\* Mutant of remove_degenerate: the ridge goes only to the diagonal elements
\* that are below the threshold.
remove_degenerate_weak_axes(ATA, threshold) ==
    [r \in Axes |-> [c \in Axes |->
        IF r = c /\ ATA[r][r] < threshold THEN ATA[r][c] + 1 ELSE ATA[r][c]]]

remove_degenerate(ATA, threshold) ==
    LET eigen == eigenvalues(ATA)
        is_degenerate == \E i \in Axes : eigen[i] < threshold
    IN  IF is_degenerate
        THEN [r \in Axes |-> [c \in Axes |-> IF r = c THEN ATA[r][c] + 1 ELSE ATA[r][c]]]
        ELSE ATA

\* ATA.householderQr().solve(ATb) for a diagonal, non-singular ATA.
householderQr_solve(ATA, ATb) == [k \in Axes |-> ATb[k] \div ATA[k][k]]

p2(v) == v * v

\* Mutant of lm2_converged: one small squared norm is enough.
lm2_converged_either(delta_xyz, delta_rpy) ==
    delta_xyz < lm2_epsilon \/ delta_rpy < lm2_epsilon

\* if(delta_xyz < 1e-7 && delta_rpy < 1e-7)
lm2_converged(delta_xyz, delta_rpy) ==
    delta_xyz < lm2_epsilon /\ delta_rpy < lm2_epsilon

\* An LM2 call that has not been made.
NoRegistration ==
    [pc |-> "idle", i |-> 0, threshold |-> degenerate_threshold,
     start |-> ZeroTransform, initial |-> ZeroTransform,
     iterations |-> 0, last |-> [i |-> -1], ret |-> ZeroTransform]

\* Entering LM2 with an initial guess: the state before the first test of
\* the for loop.
lm2_enter(threshold, initial) ==
    [NoRegistration EXCEPT !.pc = "iterating", !.threshold = threshold,
                           !.start = initial, !.initial = initial]

\* One round of the for loop of LM2 on what Ab returned (N): the test
\* i < 30, the body, and i++; the call returns from inside the body or when
\* the test fails.
lm2_iterate(st, N) ==
    IF ~(st.i < lm2_iterations)
    THEN [st EXCEPT !.pc = "exhausted", !.ret = st.initial]
    ELSE IF N.top = 0
    THEN [st EXCEPT !.pc = "no_feature", !.ret = st.initial,
                    !.iterations = @ + 1,
                    !.last = [i |-> st.i, top |-> 0]]
    ELSE LET ATA == IF st.i = 0 THEN remove_degenerate(N.ATA, st.threshold) ELSE N.ATA
             delta == householderQr_solve(ATA, N.ATb)
             trn == MkTransform(st.initial.x + delta[1], st.initial.y + delta[2],
                                st.initial.z + delta[3], st.initial.roll + delta[4],
                                st.initial.pitch + delta[5], st.initial.yaw + delta[6])
             delta_xyz == p2(delta[1]) + p2(delta[2]) + p2(delta[3])
             delta_rpy == p2(delta[4]) + p2(delta[5]) + p2(delta[6])
             seen == [i |-> st.i, top |-> N.top, ATA_in |-> N.ATA, ATA_out |-> ATA,
                      delta |-> delta, before |-> st.initial]
         IN  IF lm2_converged(delta_xyz, delta_rpy)
             THEN [st EXCEPT !.pc = "converged", !.ret = trn, !.initial = trn,
                             !.iterations = @ + 1,
                             !.last = seen]
             ELSE [st EXCEPT !.i = @ + 1, !.initial = trn,
                             !.iterations = @ + 1,
                             !.last = seen]

(***************************************************************************)
(* struct visual_odom_v2                                                   *)
(***************************************************************************)
key_frame_distance_x == 50

key_frame_distance_y == 50

key_frame_distance_z == 10

key_frame_distance_roll == 2

key_frame_distance_pitch == 2

key_frame_distance_yaw == 2

Abs(v) == IF v < 0 THEN 0 - v ELSE v

\* geometry_msgs::Pose: the position and the orientation of a matrix.
to_ros_pose(transform) == [position |-> transform.t, orientation |-> transform.r]

\* The object after construction; enable_loop is the one configuration key
\* that changes the control flow of mapping().
NewOdom(enable_loop) ==
    [local_maps |-> NewLocalMap,
     next_initial_guess |-> ZeroTransform,
     loop |-> NewLoop,
     config |-> [enable_loop |-> enable_loop],
     loop_markers |-> <<>>,
     final_path |-> <<>>]

\* Mutant of feature_ok: only the line cloud is looked at.
feature_ok_lines_only(object) ==
    IF object.line_features # Absent /\ object.line_features < 10 THEN FALSE
    ELSE TRUE

feature_ok(object) ==
    IF object.line_features # Absent /\ object.line_features < 10 THEN FALSE
    ELSE IF object.plane_features # Absent /\ object.plane_features < 100 THEN FALSE
    ELSE IF object.non_features # Absent /\ object.non_features < 100 THEN FALSE
    ELSE TRUE

\* Mutant of update_current_frame: the first frame is accepted but not
\* pushed into the ring.
update_current_frame_no_first_push(v, this_features, registered) ==
    IF ~feature_ok(this_features.velodyne_feature)
    THEN [vo |-> v, ok |-> FALSE, value |-> ZeroTransform]
    ELSE IF ~feature_ok(this_features.livox_feature)
    THEN [vo |-> v, ok |-> FALSE, value |-> ZeroTransform]
    ELSE IF empty(v.local_maps)
    THEN [vo |-> v, ok |-> TRUE, value |-> ZeroTransform]
    ELSE [vo |-> [v EXCEPT !.local_maps = get_local_map(@),
                           !.next_initial_guess = registered],
          ok |-> TRUE, value |-> registered]

\* update_current_frame.  registered is what LM2 returns for this frame
\* against the fused map; it is used only on the path that calls LM2.
update_current_frame(v, this_features, registered) ==
    IF ~feature_ok(this_features.velodyne_feature)
    THEN [vo |-> v, ok |-> FALSE, value |-> ZeroTransform]
    ELSE IF ~feature_ok(this_features.livox_feature)
    THEN [vo |-> v, ok |-> FALSE, value |-> ZeroTransform]
    ELSE IF empty(v.local_maps)
    THEN [vo |-> [v EXCEPT !.local_maps = push(@, this_features, Identity)],
          ok |-> TRUE, value |-> ZeroTransform]
    ELSE [vo |-> [v EXCEPT !.local_maps = get_local_map(@),
                           !.next_initial_guess = registered],
          ok |-> TRUE, value |-> registered]

\* Mutant of set_from_loop: the loop starts at the entry behind the head.
RECURSIVE set_from_loop_behind_head(_, _, _)
set_from_loop_behind_head(lm, lp, i) ==
    IF i <= size(lm)
    THEN set_from_loop_behind_head(
             IF i = 1 THEN lm ELSE set(lm, i, loop_var_btr(lp, i)), lp, i + 1)
    ELSE lm

\* Mutant of set_from_loop: the loop stops one entry short.
RECURSIVE set_from_loop_short(_, _, _)
set_from_loop_short(lm, lp, i) ==
    IF i < size(lm)
    THEN set_from_loop_short(set(lm, i, loop_var_btr(lp, i)), lp, i + 1)
    ELSE lm

\* for(i = 1; i <= local_maps.size(); i++) local_maps.set(i, loop.btr(i));
RECURSIVE set_from_loop(_, _, _)
set_from_loop(lm, lp, i) ==
    IF i <= size(lm)
    THEN set_from_loop(set(lm, i, loop_var_btr(lp, i)), lp, i + 1)
    ELSE lm

\* The two end points of every loop edge, in order.
RECURSIVE marker_points(_, _)
marker_points(lp, n) ==
    IF n = 0 THEN <<>>
    ELSE marker_points(lp, n - 1)
         \o <<loop_var_tr(lp, lp.loop[n].source_frame_id).t,
              loop_var_tr(lp, lp.loop[n].target_frame_id).t>>

\* Mutant of loop_detection: the fused map is rebuilt before the ring
\* transforms are rewritten.
loop_detection_rebuilding_first(v, frame, transform, result) ==
    LET lp == loop_var_loop_detection(v.loop, transform, result)
        v1 == [v EXCEPT !.loop = lp]
        poses == v1.final_path
        corrected(j) == [stamp |-> poses[j].stamp,
                         pose |-> to_ros_pose(loop_var_tr(lp, j - 1))]
    IN  IF result = 0
        THEN [vo |-> v1, has_value |-> TRUE, value |-> transform]
        ELSE [vo |-> [v1 EXCEPT
                        !.local_maps = set_from_loop(get_local_map(@), lp, 1),
                        !.final_path =
                            [j \in 1 .. Len(poses) |->
                                IF j - 1 >= result THEN corrected(j) ELSE poses[j]],
                        !.loop_markers = marker_points(lp, Len(lp.loop))],
              has_value |-> TRUE,
              value |-> loop_var_btr(lp, 1)]

\* visual_odom_v2::loop_detection; result is the loop module's answer.
loop_detection(v, frame, transform, result) ==
    LET lp == loop_var_loop_detection(v.loop, transform, result)
        v1 == [v EXCEPT !.loop = lp]
        poses == v1.final_path
        corrected(j) == [stamp |-> poses[j].stamp,
                         pose |-> to_ros_pose(loop_var_tr(lp, j - 1))]
    IN  IF result = 0
        THEN [vo |-> v1, has_value |-> TRUE, value |-> transform]
        ELSE [vo |-> [v1 EXCEPT
                        !.local_maps = set_from_loop(@, lp, 1),
                        !.final_path =
                            [j \in 1 .. Len(poses) |->
                                IF j - 1 >= result THEN corrected(j) ELSE poses[j]],
                        !.loop_markers = marker_points(lp, Len(lp.loop))],
              has_value |-> TRUE,
              value |-> loop_var_btr(lp, 1)]

\* Mutant of below_key_frame_distance: a component exactly at its distance
\* still counts as below.
below_or_at_key_frame_distance(Tr) ==
    /\ Abs(Tr.x) <= key_frame_distance_x
    /\ Abs(Tr.y) <= key_frame_distance_y
    /\ Abs(Tr.z) <= key_frame_distance_z
    /\ Abs(Tr.roll) <= key_frame_distance_roll
    /\ Abs(Tr.pitch) <= key_frame_distance_pitch
    /\ Abs(Tr.yaw) <= key_frame_distance_yaw

\* The keyframe gate of mapping(): the frame is dropped when the ring is not
\* empty and every component of Tr is below its distance.
below_key_frame_distance(Tr) ==
    /\ Abs(Tr.x) < key_frame_distance_x
    /\ Abs(Tr.y) < key_frame_distance_y
    /\ Abs(Tr.z) < key_frame_distance_z
    /\ Abs(Tr.roll) < key_frame_distance_roll
    /\ Abs(Tr.pitch) < key_frame_distance_pitch
    /\ Abs(Tr.yaw) < key_frame_distance_yaw

\* visual_odom_v2::mapping: the object afterwards and the optional pose.
mapping(v, frame, time, registered, result) ==
    LET Mr == update_current_frame(v, frame, registered)
        Tr == Mr.value
        M  == MatMul(tr(Mr.vo.local_maps), to_eigen(Tr))
    IN  IF ~Mr.ok
        THEN [vo |-> Mr.vo, has_value |-> FALSE, value |-> Uninitialized]
        ELSE IF ~empty(Mr.vo.local_maps) /\ below_key_frame_distance(Tr)
        THEN [vo |-> Mr.vo, has_value |-> TRUE, value |-> M]
        ELSE LET v2 == [Mr.vo EXCEPT
                          !.local_maps = push(@, frame, M),
                          !.final_path =
                              Append(@, [stamp |-> time, pose |-> to_ros_pose(M)])]
             IN  IF v2.config.enable_loop
                 THEN loop_detection(v2, frame, M, result)
                 ELSE [vo |-> v2, has_value |-> TRUE, value |-> M]

\* The fused map update_current_frame passes to LM2 (auto M =
\* local_maps.get_local_map()), when it gets that far.
registration_map(v, this_features) ==
    IF /\ feature_ok(this_features.velodyne_feature)
       /\ feature_ok(this_features.livox_feature)
       /\ ~empty(v.local_maps)
    THEN [called |-> TRUE, M |-> get_local_map(v.local_maps).local_map]
    ELSE [called |-> FALSE, M |-> <<>>]

\* The assertions of local_map that a mapping() call evaluates, in the
\* order it reaches them, each with the counters (and back_index) it tests:
\* update_local_map when get_local_map rebuilds, tr() once the frame is
\* accepted, set() for every step of the correction loop.
Asserted(at, back_index, lm) ==
    [at |-> at, back_index |-> back_index, counters |-> lm.counters]

get_local_map_asserts(lm) ==
    IF lm.local_map_dirty THEN <<Asserted("update_local_map", 0, lm)>> ELSE <<>>

update_current_frame_asserts(v, this_features) ==
    IF ~feature_ok(this_features.velodyne_feature) THEN <<>>
    ELSE IF ~feature_ok(this_features.livox_feature) THEN <<>>
    ELSE IF empty(v.local_maps) THEN <<>>
    ELSE get_local_map_asserts(v.local_maps)

RECURSIVE set_from_loop_asserts(_, _, _)
set_from_loop_asserts(lm, lp, i) ==
    IF i <= size(lm)
    THEN <<Asserted("set", i, lm)>>
         \o set_from_loop_asserts(set(lm, i, loop_var_btr(lp, i)), lp, i + 1)
    ELSE <<>>

mapping_asserts(v, frame, registered, result) ==
    LET Mr == update_current_frame(v, frame, registered)
        Tr == Mr.value
        M  == MatMul(tr(Mr.vo.local_maps), to_eigen(Tr))
        first == update_current_frame_asserts(v, frame)
        upto_gate == first \o <<Asserted("tr", 0, Mr.vo.local_maps)>>
    IN  IF ~Mr.ok THEN first
        ELSE IF ~empty(Mr.vo.local_maps) /\ below_key_frame_distance(Tr) THEN upto_gate
        ELSE IF Mr.vo.config.enable_loop /\ result # 0
        THEN upto_gate
             \o set_from_loop_asserts(push(Mr.vo.local_maps, frame, M),
                                      loop_var_loop_detection(Mr.vo.loop, M, result), 1)
        ELSE upto_gate

(***************************************************************************)
(* synced_queue<T> (comm.h): push appends and wakes a waiter; acquire      *)
(* blocks until the queue is non-empty or the stop predicate holds and     *)
(* then detaches the whole queue; notify wakes the waiters.  A worker is   *)
(* "waiting" while blocked inside acquire and re-evaluates the condition   *)
(* when woken.                                                             *)
(***************************************************************************)
synced_queue_push(q, item) == Append(q, item)

synced_queue_ready(q, stop) == q # <<>> \/ stop

synced_queue_wake(pc) == IF pc = "waiting" THEN "acquire" ELSE pc

(***************************************************************************)
(* struct feature_thread                                                   *)
(***************************************************************************)
\* Configurations the constructor leaves: both sensors disabled is reset to
\* both enabled.
SensorConfigs ==
    {[use_velodyne |-> TRUE, use_livox |-> TRUE],
     [use_velodyne |-> TRUE, use_livox |-> FALSE],
     [use_velodyne |-> FALSE, use_livox |-> TRUE]}

\* The frame the loop body builds from what the extractors found: a sensor
\* that is not used leaves its feature_objects default-constructed.
features_frame(cfg, extracted) ==
    [id |-> extracted.id,
     velodyne_feature |->
         IF cfg.use_velodyne THEN extracted.velodyne_feature
         ELSE EmptyFrame.velodyne_feature,
     livox_feature |->
         IF cfg.use_livox THEN extracted.livox_feature
         ELSE EmptyFrame.livox_feature]

\* Mutant of features_enough: the solid-state clouds are not looked at.
features_enough_velodyne_only(cfg, extracted) ==
    IF cfg.use_velodyne
       /\ (\/ extracted.velodyne_feature.line_features < 20
           \/ extracted.velodyne_feature.plane_features < 100)
    THEN FALSE
    ELSE TRUE

\* Whether the loop body reaches feature_frame_delegate.
features_enough(cfg, extracted) ==
    IF cfg.use_velodyne
       /\ (\/ extracted.velodyne_feature.line_features < 20
           \/ extracted.velodyne_feature.plane_features < 100)
    THEN FALSE
    ELSE IF cfg.use_livox
            /\ (\/ extracted.livox_feature.plane_features = 0
                \/ extracted.livox_feature.non_features = 0)
    THEN FALSE
    ELSE TRUE

\* Mutant of features_continue: the loop ignores should_stop.
features_continue_ignoring_stop(pq, should_stop) == pq # <<>>

\* The condition of the for loop over the batch.
features_continue(pq, should_stop) == pq # <<>> /\ ~should_stop

(***************************************************************************)
(* struct mapping_thread                                                   *)
(***************************************************************************)
\* Mutant of mapping_front: the newest element of the batch is taken.
mapping_back(pq) == pq[Len(pq)]

\* pq.front()
mapping_front(pq) == Head(pq)

\* Mutant of mapping_continue: the loop ignores should_stop.
mapping_continue_ignoring_stop(pq, should_stop) == pq # <<>>

\* The condition of the while loop over the batch.
mapping_continue(pq, should_stop) == pq # <<>> /\ ~should_stop

\* Mutant of mapping_pop: a frame mapping() rejected is not popped before
\* the continue.
mapping_pop_unless_rejected(pq, has_value) == IF has_value THEN Tail(pq) ELSE pq

\* The batch after one iteration of the loop: both paths pop the front.
mapping_pop(pq, has_value) == Tail(pq)

\* Whether one iteration of the loop reaches publish_map, publish_transform
\* and pub_path.publish: not when mapping() returned no pose.
mapping_publishes(has_value) == has_value

\* save_traces: one line per pose of the path, named here by its stamp.
save_traces(traces) == [j \in 1 .. Len(traces) |-> traces[j].stamp]

\* Mutant of mapping_epilogue: an empty path is saved too.
mapping_epilogue_saves_empty(files, path, path_name) ==
    IF path_name # "" THEN Append(files, save_traces(path)) ELSE files

\* The epilogue of __mapping_thread after the loop: the files written so far
\* and the one it may add.
mapping_epilogue(files, path, path_name) ==
    IF path_name # ""
    THEN IF path = <<>> THEN files ELSE Append(files, save_traces(path))
    ELSE files

\* Mutant of mapping_dtor_notify: the destructor does not notify.
mapping_dtor_no_notify(pc) == pc

\* q.notify() of ~mapping_thread, as the worker sees it.
mapping_dtor_notify(pc) == synced_queue_wake(pc)

\* q.notify() of ~feature_thread, as the worker sees it.
features_dtor_notify(pc) == synced_queue_wake(pc)

(***************************************************************************)
(* The constructors of feature_thread and mapping_thread.  params is what  *)
(* the parameter server holds.  ROS_FATAL writes a log line and returns.   *)
(* Reading livox_cab[k] with k >= livox_cab.size() is undefined: ub says   *)
(* whether the process dies at the first such read or what value the read  *)
(* yields.                                                                 *)
(***************************************************************************)
NotBuilt ==
    [constructed |-> FALSE, crashed |-> FALSE, use_livox |-> TRUE, use_velodyne |-> TRUE,
     fatal |-> 0, reads |-> {}, tr |-> ZeroTransform, livox_transform |-> Uninitialized,
     subscribed |-> FALSE, thread_started |-> FALSE]

\* livox_cab[k], k counted from 0.
livox_cab_at(cab, k, ub) == IF k < Len(cab) THEN cab[k + 1] ELSE ub.value

\* The six assignments tr.x = livox_cab[0]; ... tr.yaw = livox_cab[5];
livox_cab_tr(cab, ub) ==
    MkTransform(livox_cab_at(cab, 0, ub), livox_cab_at(cab, 1, ub),
                livox_cab_at(cab, 2, ub), livox_cab_at(cab, 3, ub),
                livox_cab_at(cab, 4, ub), livox_cab_at(cab, 5, ub))

\* The indices of livox_cab the six assignments read: all of them, or up to
\* the first one outside the vector when that read ends the process.
livox_cab_reads(cab, ub) ==
    IF Len(cab) < 6 /\ ub.crash THEN 0 .. Len(cab) ELSE 0 .. 5

\* Mutant of feature_thread_ctor: a configuration error ends construction
\* before anything else is done.
feature_thread_ctor_aborting(params, ub) ==
    LET both_off == ~params.use_livox /\ ~params.use_velodyne
        cab == params.livox_transform
    IN  IF both_off \/ Len(cab) # 6
        THEN [NotBuilt EXCEPT !.fatal = 1]
        ELSE [constructed |-> TRUE, crashed |-> FALSE,
              use_livox |-> params.use_livox, use_velodyne |-> params.use_velodyne,
              fatal |-> 0, reads |-> 0 .. 5, tr |-> livox_cab_tr(cab, ub),
              livox_transform |-> MatInverse(to_eigen(livox_cab_tr(cab, ub))),
              subscribed |-> TRUE, thread_started |-> TRUE]

feature_thread_ctor(params, ub) ==
    LET both_off == ~params.use_livox /\ ~params.use_velodyne
        cab == params.livox_transform
        crashed == Len(cab) < 6 /\ ub.crash
    IN  [constructed |-> ~crashed,
         crashed |-> crashed,
         use_livox |-> IF both_off THEN TRUE ELSE params.use_livox,
         use_velodyne |-> IF both_off THEN TRUE ELSE params.use_velodyne,
         fatal |-> (IF both_off THEN 1 ELSE 0) + (IF Len(cab) # 6 THEN 1 ELSE 0),
         reads |-> livox_cab_reads(cab, ub),
         tr |-> IF crashed THEN ZeroTransform ELSE livox_cab_tr(cab, ub),
         livox_transform |->
             IF crashed THEN Uninitialized
             ELSE MatInverse(to_eigen(livox_cab_tr(cab, ub))),
         subscribed |-> ~crashed,
         thread_started |-> ~crashed]

\* mapping_thread::mapping_thread: the worker is started and the handler is
\* appended before livox_transform is looked at.
mapping_thread_ctor(params, ub) ==
    LET cab == params.livox_transform
        crashed == Len(cab) < 6 /\ ub.crash
    IN  [constructed |-> ~crashed,
         crashed |-> crashed,
         use_livox |-> TRUE,
         use_velodyne |-> TRUE,
         fatal |-> IF Len(cab) # 6 THEN 1 ELSE 0,
         reads |-> livox_cab_reads(cab, ub),
         tr |-> IF crashed THEN ZeroTransform ELSE livox_cab_tr(cab, ub),
         livox_transform |->
             IF crashed THEN Uninitialized
             ELSE MatInverse(to_eigen(livox_cab_tr(cab, ub))),
         subscribed |-> TRUE,
         thread_started |-> TRUE]

\* A float member: mapping_thread::degenerate_threshold has no initializer
\* and holds nothing defined until the constructor assigns it.
Unassigned == [assigned |-> FALSE, value |-> 0]

\* mapping_thread as the constructor begins, before the worker exists:
\* where the constructor is, the members it assigns, the queue, and what
\* the worker has read so far.
NoStartup ==
    [param |-> degenerate_threshold,
     ctor_pc |-> "thread",
     thread_started |-> FALSE,
     subscribed |-> FALSE,
     livox_transform |-> Uninitialized,
     degenerate_threshold |-> Unassigned,
     w_pc |-> "not_started",
     mapping_v2_threshold |-> [copied |-> FALSE, assigned |-> FALSE, value |-> 0],
     q |-> <<>>,
     pq |-> <<>>,
     sent |-> 0,
     processed |-> <<>>]

\* The constructor up to thread = std::thread(...): the publishers are
\* advertised and the worker is started.
mapping_ctor_start_thread(su) ==
    [su EXCEPT !.thread_started = TRUE, !.ctor_pc = "append"]

\* feature_frame_delegate.append(...).
mapping_ctor_append(su) ==
    [su EXCEPT !.subscribed = TRUE, !.ctor_pc = "livox_transform"]

\* livox_cab is read and livox_transform = to_eigen(tr).inverse().
mapping_ctor_livox_transform(su, params, ub) ==
    [su EXCEPT !.livox_transform =
                   MatInverse(to_eigen(livox_cab_tr(params.livox_transform, ub))),
               !.ctor_pc = "degenerate_threshold"]

\* nh->param("/tailor/degenerate_threshold", degenerate_threshold, 10.0f).
mapping_ctor_degenerate_threshold(su) ==
    [su EXCEPT !.degenerate_threshold = [assigned |-> TRUE, value |-> su.param],
               !.ctor_pc = "done"]

\* The worker's prologue: mapping_v2 is constructed and save_path is read.
mapping_worker_enter(su) == [su EXCEPT !.w_pc = "copy_threshold"]

\* mapping_v2.degenerate_threshold = degenerate_threshold; the value of an
\* unassigned member is whatever the memory holds (garbage).
mapping_worker_copy_threshold(su, garbage) ==
    [su EXCEPT !.mapping_v2_threshold =
                   [copied |-> TRUE,
                    assigned |-> su.degenerate_threshold.assigned,
                    value |-> IF su.degenerate_threshold.assigned
                              THEN su.degenerate_threshold.value
                              ELSE garbage],
               !.w_pc = "acquire"]

\* q.acquire(...) with should_stop clear: the whole queue is detached.
mapping_worker_acquire(su) ==
    [su EXCEPT !.pq = su.q, !.q = <<>>, !.w_pc = "process"]

\* One pass of the inner loop: mapping() on the front element, and for a
\* returned pose LX = M * livox_transform; then pq.pop().
mapping_worker_process(su, has_value) ==
    LET rest == mapping_pop(su.pq, has_value)
    IN  [su EXCEPT !.processed =
                       Append(@, [msg |-> mapping_front(su.pq),
                                  has_value |-> has_value,
                                  threshold_assigned |-> su.degenerate_threshold.assigned,
                                  livox_transform |-> su.livox_transform]),
                   !.pq = rest,
                   !.w_pc = IF rest = <<>> THEN "acquire" ELSE "process"]

\* feature_frame_delegate(msg, frame) on the producer's thread: every
\* handler appended so far is called; mapping_thread's pushes to q.
feature_frame_delegate(su) ==
    [su EXCEPT !.sent = @ + 1,
               !.q = IF su.subscribed THEN synced_queue_push(@, su.sent + 1) ELSE @]

(***************************************************************************)
(* Inputs.                                                                 *)
(***************************************************************************)
\* The increment of one keyframe step of a straight run along x.
CruiseTransform == MkTransform(key_frame_distance_x, 0, 0, 0, 0, 0)

\* The world pose of the n-th keyframe of the straight run.
KeyframePose(n) ==
    [t |-> <<key_frame_distance_x * (n - 1), 0, 0>>, r |-> <<0, 0, 0>>, init |-> TRUE]

CorrectedPose(n) == Corrected(KeyframePose(n))

\* Every component one unit below its key frame distance.
JustBelow ==
    MkTransform(key_frame_distance_x - 1, key_frame_distance_y - 1,
                key_frame_distance_z - 1, key_frame_distance_roll - 1,
                key_frame_distance_pitch - 1, key_frame_distance_yaw - 1)

\* What registration may return: nothing, everything just below the gate,
\* or a single component exactly at its distance (one of them negative).
TrInputs ==
    {ZeroTransform, JustBelow,
     MkTransform(key_frame_distance_x, 0, 0, 0, 0, 0),
     MkTransform(0 - key_frame_distance_x, 0, 0, 0, 0, 0),
     MkTransform(0, key_frame_distance_y, 0, 0, 0, 0),
     MkTransform(0, 0, key_frame_distance_z, 0, 0, 0),
     MkTransform(0, 0, 0, key_frame_distance_roll, 0, 0),
     MkTransform(0, 0, 0, 0, key_frame_distance_pitch, 0),
     MkTransform(0, 0, 0, 0, 0, 0 - key_frame_distance_yaw)}

\* Frames given to mapping(): a good one, one with 9 line points, one with
\* 99 spin plane points and one with 99 non-feature points.
OdomFrames(id) ==
    {GoodFrame(id), MkFrame(id, 9, 100, 100, 100), MkFrame(id, 20, 99, 100, 100),
     MkFrame(id, 20, 100, 100, 99)}

\* Well-featured frames: a rich one, one exactly at the feature_ok minima and
\* one of a run without the solid-state sensor.
WellFeatured(id) ==
    {GoodFrame(id), MkFrame(id, 10, 100, 100, 100), MkFrame(id, 20, 100, Absent, Absent)}

\* Answers of the loop module: no change, or poses changed from index 1 or
\* from index 2 on.
LoopResults == {0, 1, 2}

(***************************************************************************)
(* Initial values and stuttering of the parts a specification leaves out.  *)
(***************************************************************************)
NoCall == [op |-> "none", back_index |-> 0, before |-> NewLocalMap]

NoMapping ==
    [op |-> "none", frame |-> EmptyFrame, counters |-> 0, poses |-> 0, pushes |-> 0,
     ok |-> FALSE, Tr |-> ZeroTransform, result |-> 0, has_value |-> FALSE,
     value |-> Uninitialized, asserts |-> <<>>,
     registration |-> [called |-> FALSE, M |-> <<>>]]

NoExtraction == [msg |-> 0, extracted |-> EmptyFrame]

\* The parameter server without any of the keys: every default.
DefaultParams ==
    [use_livox |-> TRUE, use_velodyne |-> TRUE, livox_transform |-> <<0, 0, 0, 0, 0, 0>>]

NoUndefinedRead == [crash |-> FALSE, value |-> 0]

RegIdle == lm2 = NoRegistration

\* Both stages constructed from the defaults.
CtorDone ==
    /\ startup = NoStartup
    /\ nh = DefaultParams
    /\ stages = [feature |-> feature_thread_ctor(DefaultParams, NoUndefinedRead),
                 mapping |-> mapping_thread_ctor(DefaultParams, NoUndefinedRead)]

RingIdle ==
    /\ lmap = NewLocalMap
    /\ pushes = 0
    /\ edits = 0
    /\ last = NoCall

OdomIdle ==
    /\ vo = NewOdom(TRUE)
    /\ calls = 0
    /\ run = 0
    /\ vo_pushes = 0
    /\ lastCall = NoMapping

PipeIdle ==
    /\ sensors = [use_velodyne |-> TRUE, use_livox |-> TRUE]
    /\ f_q = <<>>
    /\ f_pq = <<>>
    /\ f_pc = "acquire"
    /\ f_stop = FALSE
    /\ f_dtor = "alive"
    /\ m_q = <<>>
    /\ m_pq = <<>>
    /\ m_pc = "acquire"
    /\ m_stop = FALSE
    /\ m_dtor = "alive"
    /\ sent = 0
    /\ published = <<>>
    /\ mapped = <<>>
    /\ late = [features |-> {}, mapping |-> {}]
    /\ dropped = [features |-> {}, mapping |-> {}]
    /\ save_path = ""
    /\ trace_files = <<>>
    /\ pub_path = <<>>
    /\ f_last = NoExtraction

(***************************************************************************)
(* SpecRing: one local_map under arbitrary calls.  Push number n carries   *)
(* frame n and the pose of the n-th keyframe of a straight run; set()      *)
(* writes the corrected pose of the entry it addresses.                    *)
(***************************************************************************)
MaxPushes == 26

MaxEdits == 2

InitRing ==
    /\ RingIdle
    /\ OdomIdle
    /\ PipeIdle
    /\ CtorDone
    /\ RegIdle

RingPush ==
    /\ pushes < MaxPushes
    /\ lmap' = push(lmap, GoodFrame(pushes + 1), KeyframePose(pushes + 1))
    /\ pushes' = pushes + 1
    /\ last' = [op |-> "push", back_index |-> 0, before |-> lmap]
    /\ UNCHANGED <<edits, odomVars, pipeVars, ctorVars, regVars>>

\* set is called under its asserted precondition back_index <= counters,
\* with back_index >= 1.
RingSet ==
    /\ edits < MaxEdits
    /\ \E b \in 1 .. lmap.counters :
          /\ lmap' = set(lmap, b, CorrectedPose(pushes - b + 1))
          /\ last' = [op |-> "set", back_index |-> b, before |-> lmap]
    /\ edits' = edits + 1
    /\ UNCHANGED <<pushes, odomVars, pipeVars, ctorVars, regVars>>

\* get_local_map is called under update_local_map's assertion counters > 0.
RingGet ==
    /\ edits < MaxEdits
    /\ lmap.counters > 0
    /\ lmap' = get_local_map(lmap)
    /\ last' = [op |-> "get", back_index |-> 0, before |-> lmap]
    /\ edits' = edits + 1
    /\ UNCHANGED <<pushes, odomVars, pipeVars, ctorVars, regVars>>

NextRing == RingPush \/ RingSet \/ RingGet

SpecRing == InitRing /\ [][NextRing]_vars

(***************************************************************************)
(* SpecOdom: one visual_odom_v2 under mapping() calls.  A scripted         *)
(* straight run of keyframes (to fill and wrap the ring) is followed by    *)
(* calls with every input.  Frame ids double as capture times.             *)
(***************************************************************************)
MaxRun == 22

MaxCalls == 2

\* One mapping() call on vo, with the history it leaves: the frame, what
\* counters, the trajectory length and the push count were before the call,
\* what update_current_frame answered and what mapping() returned.
DoMapping(frame, registered, result) ==
    \E upd \in {update_current_frame(vo, frame, registered)} :
       \E res \in {mapping(vo, frame, frame.id, registered, result)} :
          /\ vo' = res.vo
          /\ vo_pushes' = vo_pushes
                + ((res.vo.local_maps.head - vo.local_maps.head) % previous_frame_count)
          /\ lastCall' = [op |-> "mapping", frame |-> frame,
                          counters |-> vo.local_maps.counters,
                          poses |-> Len(vo.final_path),
                          pushes |-> vo_pushes,
                          ok |-> upd.ok, Tr |-> upd.value, result |-> result,
                          has_value |-> res.has_value, value |-> res.value,
                          asserts |-> mapping_asserts(vo, frame, registered, result),
                          registration |-> registration_map(vo, frame)]

\* The inputs a call reads: registration runs only for an accepted frame
\* on a non-empty ring, and the loop module only for a keyframe on a
\* non-empty ring with loop closure enabled; it can report a change only
\* from an index it holds.
RegistrationInputs(v, frame) ==
    IF /\ feature_ok(frame.velodyne_feature)
       /\ feature_ok(frame.livox_feature)
       /\ ~empty(v.local_maps)
    THEN TrInputs
    ELSE {ZeroTransform}

LoopInputs(v, frame, registered) ==
    IF /\ feature_ok(frame.velodyne_feature)
       /\ feature_ok(frame.livox_feature)
       /\ ~empty(v.local_maps)
       /\ ~below_key_frame_distance(registered)
       /\ v.config.enable_loop
    THEN {result \in LoopResults : result <= Len(v.loop.keyframes)}
    ELSE {0}

InitOdom ==
    /\ RingIdle
    /\ PipeIdle
    /\ CtorDone
    /\ RegIdle
    /\ \E enable_loop \in BOOLEAN : vo = NewOdom(enable_loop)
    /\ calls = 0
    /\ run = 0
    /\ vo_pushes = 0
    /\ lastCall = NoMapping

OdomRun ==
    /\ calls = 0
    /\ run < MaxRun
    /\ DoMapping(GoodFrame(run + 1), CruiseTransform, 0)
    /\ run' = run + 1
    /\ UNCHANGED <<calls, ringVars, pipeVars, ctorVars, regVars>>

OdomCall ==
    /\ calls < MaxCalls
    /\ \E frame \in OdomFrames(run + calls + 1) :
          \E registered \in RegistrationInputs(vo, frame) :
             \E result \in LoopInputs(vo, frame, registered) :
                DoMapping(frame, registered, result)
    /\ calls' = calls + 1
    /\ UNCHANGED <<run, ringVars, pipeVars, ctorVars, regVars>>

NextOdom == OdomRun \/ OdomCall

SpecOdom == InitOdom /\ [][NextOdom]_vars

(***************************************************************************)
(* SpecStatic: the static scene.  Well-featured frames are fed one after   *)
(* another and registration returns the zero increment for each.           *)
(***************************************************************************)
MaxStaticFrames == 50

StaticCall ==
    /\ run < MaxStaticFrames
    /\ \E frame \in WellFeatured(run + 1) : DoMapping(frame, ZeroTransform, 0)
    /\ run' = run + 1
    /\ UNCHANGED <<calls, ringVars, pipeVars, ctorVars, regVars>>

NextStatic == StaticCall

SpecStatic == InitOdom /\ [][NextStatic]_vars

(***************************************************************************)
(* SpecPipe: the sync layer pushing messages 1, 2, ... into the feature    *)
(* queue, the two workers and the two destructors, interleaved.  A message *)
(* is named by its capture time.  Both constructors have completed: the    *)
(* workers run and both delegates are registered.  What the extractors     *)
(* find in a message, what registration returns and what the loop module   *)
(* answers are inputs.  SpecPipeFair adds that a worker that can take a    *)
(* step eventually takes it.                                               *)
(***************************************************************************)
MaxMessages == 3

\* What feature_velodyne and feature_livox may find in message id: enough
\* for both stages, 19 line points, 50 non-feature points, or no solid-state
\* plane points.
Extracted(id) ==
    {GoodFrame(id), MkFrame(id, 19, 100, 100, 100), MkFrame(id, 20, 100, 100, 50),
     MkFrame(id, 20, 100, 0, 100)}

\* /tailor/mapping_save_path: not set (the default) or a directory.
SavePaths == {"", "/traces"}

PipeRegistration(v, frame) ==
    RegistrationInputs(v, frame) \cap {ZeroTransform, CruiseTransform}

Elements(seq) == {seq[i] : i \in 1 .. Len(seq)}

InitPipe ==
    /\ RingIdle
    /\ CtorDone
    /\ RegIdle
    /\ vo = NewOdom(TRUE)
    /\ calls = 0
    /\ run = 0
    /\ vo_pushes = 0
    /\ lastCall = NoMapping
    /\ sensors = [use_velodyne |-> TRUE, use_livox |-> TRUE]
    /\ f_q = <<>>
    /\ f_pq = <<>>
    /\ f_pc = "acquire"
    /\ f_stop = FALSE
    /\ f_dtor = "alive"
    /\ m_q = <<>>
    /\ m_pq = <<>>
    /\ m_pc = "acquire"
    /\ m_stop = FALSE
    /\ m_dtor = "alive"
    /\ sent = 0
    /\ published = <<>>
    /\ mapped = <<>>
    /\ late = [features |-> {}, mapping |-> {}]
    /\ dropped = [features |-> {}, mapping |-> {}]
    /\ save_path \in SavePaths
    /\ trace_files = <<>>
    /\ pub_path = <<>>
    /\ f_last = NoExtraction

\* sync_frame_delegate handler of feature_thread: q.push(msg).  Neither
\* destructor removes its handler, so a push may come at any time.
SyncPush ==
    /\ sent < MaxMessages
    /\ f_q' = synced_queue_push(f_q, sent + 1)
    /\ f_pc' = synced_queue_wake(f_pc)
    /\ sent' = sent + 1
    /\ late' = IF f_stop THEN [late EXCEPT !.features = @ \cup {sent + 1}] ELSE late
    /\ UNCHANGED <<ringVars, ctorVars, regVars, odomVars, save_path,
                   trace_files, pub_path, f_last, sensors, f_pq, f_stop,
                   f_dtor, m_q, m_pq, m_pc, m_stop, m_dtor, published, mapped,
                   dropped>>

\* __features_thread: q.acquire(...) and the test of the batch for empty.
FeatureAcquire ==
    /\ f_pc = "acquire"
    /\ IF synced_queue_ready(f_q, f_stop)
       THEN /\ f_q' = <<>>
            /\ f_pq' = f_q
            /\ f_pc' = IF f_q = <<>> THEN "done" ELSE "loop"
       ELSE /\ f_pc' = "waiting"
            /\ UNCHANGED <<f_q, f_pq>>
    /\ UNCHANGED <<ringVars, ctorVars, regVars, odomVars, save_path,
                   trace_files, pub_path, f_last, sensors, f_stop, f_dtor,
                   m_q, m_pq, m_pc, m_stop, m_dtor, sent, published, mapped,
                   late, dropped>>

\* __features_thread: one test of the for condition and, when it holds, one
\* body with its pq.pop(); when it fails the rest of the batch is destroyed.
FeatureLoop ==
    /\ f_pc = "loop"
    /\ IF features_continue(f_pq, f_stop)
       THEN \E extracted \in Extracted(Head(f_pq)) :
               /\ f_pq' = Tail(f_pq)
               /\ f_pc' = "loop"
               /\ f_last' = [msg |-> Head(f_pq), extracted |-> extracted]
               /\ IF features_enough(sensors, extracted)
                  THEN /\ m_q' = synced_queue_push(m_q,
                                    [msg |-> Head(f_pq),
                                     frame |-> features_frame(sensors, extracted)])
                       /\ m_pc' = synced_queue_wake(m_pc)
                       /\ published' = Append(published, Head(f_pq))
                       /\ late' = IF m_stop
                                  THEN [late EXCEPT !.mapping = @ \cup {Head(f_pq)}]
                                  ELSE late
                  ELSE UNCHANGED <<m_q, m_pc, published, late>>
               /\ UNCHANGED dropped
       ELSE /\ f_pq' = <<>>
            /\ f_pc' = "acquire"
            /\ dropped' = [dropped EXCEPT !.features = @ \cup Elements(f_pq)]
            /\ UNCHANGED <<m_q, m_pc, published, late, f_last>>
    /\ UNCHANGED <<ringVars, ctorVars, regVars, odomVars, save_path,
                   trace_files, pub_path, sensors, f_q, f_stop, f_dtor, m_pq,
                   m_stop, m_dtor, sent, mapped>>

\* __mapping_thread: q.acquire(...) and the test of the batch for empty; on
\* an empty batch the worker leaves the loop and runs its epilogue.
MappingAcquire ==
    /\ m_pc = "acquire"
    /\ IF synced_queue_ready(m_q, m_stop)
       THEN /\ m_q' = <<>>
            /\ m_pq' = m_q
            /\ m_pc' = IF m_q = <<>> THEN "done" ELSE "loop"
            /\ trace_files' = IF m_q = <<>>
                              THEN mapping_epilogue(trace_files, vo.final_path, save_path)
                              ELSE trace_files
       ELSE /\ m_pc' = "waiting"
            /\ UNCHANGED <<m_q, m_pq, trace_files>>
    /\ UNCHANGED <<ringVars, ctorVars, regVars, odomVars, save_path, pub_path,
                   f_last, sensors, f_q, f_pq, f_pc, f_stop, f_dtor, m_stop,
                   m_dtor, sent, published, mapped, late, dropped>>

\* __mapping_thread: one test of the while condition and, when it holds, one
\* body (mapping, publishing, pq.pop()); when it fails the rest of the batch
\* is destroyed.
MappingLoop ==
    /\ m_pc = "loop"
    /\ IF mapping_continue(m_pq, m_stop)
       THEN \E registered \in PipeRegistration(vo, mapping_front(m_pq).frame) :
              \E result \in LoopInputs(vo, mapping_front(m_pq).frame, registered) :
                \E res \in {mapping(vo, mapping_front(m_pq).frame,
                                    mapping_front(m_pq).msg, registered, result)} :
                   /\ vo' = res.vo
                   /\ vo_pushes' = vo_pushes
                         + ((res.vo.local_maps.head - vo.local_maps.head)
                               % previous_frame_count)
                   /\ pub_path' = IF mapping_publishes(res.has_value)
                                  THEN Append(pub_path, mapping_front(m_pq).msg)
                                  ELSE pub_path
                   /\ mapped' = Append(mapped, mapping_front(m_pq).msg)
                   /\ m_pq' = mapping_pop(m_pq, res.has_value)
                   /\ m_pc' = "loop"
                   /\ UNCHANGED dropped
       ELSE /\ m_pq' = <<>>
            /\ m_pc' = "acquire"
            /\ dropped' = [dropped EXCEPT
                             !.mapping = @ \cup {m_pq[i].msg : i \in 1 .. Len(m_pq)}]
            /\ UNCHANGED <<vo, vo_pushes, mapped, pub_path>>
    /\ UNCHANGED <<ringVars, ctorVars, regVars, calls, run, lastCall,
                   save_path, trace_files, f_last, sensors, f_q, f_pq, f_pc,
                   f_stop, f_dtor, m_q, m_stop, m_dtor, sent, published,
                   late>>

\* ~feature_thread: should_stop = true;
FeatureDtorStop ==
    /\ f_dtor = "alive"
    /\ f_stop' = TRUE
    /\ f_dtor' = "notify"
    /\ UNCHANGED <<ringVars, ctorVars, regVars, odomVars, save_path,
                   trace_files, pub_path, f_last, sensors, f_q, f_pq, f_pc,
                   m_q, m_pq, m_pc, m_stop, m_dtor, sent, published, mapped,
                   late, dropped>>

\* ~feature_thread: q.notify();
FeatureDtorNotify ==
    /\ f_dtor = "notify"
    /\ f_pc' = features_dtor_notify(f_pc)
    /\ f_dtor' = "join"
    /\ UNCHANGED <<ringVars, ctorVars, regVars, odomVars, save_path,
                   trace_files, pub_path, f_last, sensors, f_q, f_pq, f_stop,
                   m_q, m_pq, m_pc, m_stop, m_dtor, sent, published, mapped,
                   late, dropped>>

\* ~feature_thread: thread.join(); returns once the worker has ended.
FeatureDtorJoin ==
    /\ f_dtor = "join"
    /\ f_pc = "done"
    /\ f_dtor' = "joined"
    /\ UNCHANGED <<ringVars, ctorVars, regVars, odomVars, save_path,
                   trace_files, pub_path, f_last, sensors, f_q, f_pq, f_pc,
                   f_stop, m_q, m_pq, m_pc, m_stop, m_dtor, sent, published,
                   mapped, late, dropped>>

\* ~mapping_thread: should_stop = true;
MappingDtorStop ==
    /\ m_dtor = "alive"
    /\ m_stop' = TRUE
    /\ m_dtor' = "notify"
    /\ UNCHANGED <<ringVars, ctorVars, regVars, odomVars, save_path,
                   trace_files, pub_path, f_last, sensors, f_q, f_pq, f_pc,
                   f_stop, f_dtor, m_q, m_pq, m_pc, sent, published, mapped,
                   late, dropped>>

\* ~mapping_thread: q.notify();
MappingDtorNotify ==
    /\ m_dtor = "notify"
    /\ m_pc' = mapping_dtor_notify(m_pc)
    /\ m_dtor' = "join"
    /\ UNCHANGED <<ringVars, ctorVars, regVars, odomVars, save_path,
                   trace_files, pub_path, f_last, sensors, f_q, f_pq, f_pc,
                   f_stop, f_dtor, m_q, m_pq, m_stop, sent, published, mapped,
                   late, dropped>>

\* ~mapping_thread: thread.join(); returns once the worker has ended.
MappingDtorJoin ==
    /\ m_dtor = "join"
    /\ m_pc = "done"
    /\ m_dtor' = "joined"
    /\ UNCHANGED <<ringVars, ctorVars, regVars, odomVars, save_path,
                   trace_files, pub_path, f_last, sensors, f_q, f_pq, f_pc,
                   f_stop, f_dtor, m_q, m_pq, m_pc, m_stop, sent, published,
                   mapped, late, dropped>>

FeatureWorker == FeatureAcquire \/ FeatureLoop

MappingWorker == MappingAcquire \/ MappingLoop

NextPipe ==
    \/ SyncPush
    \/ FeatureAcquire
    \/ FeatureLoop
    \/ MappingAcquire
    \/ MappingLoop
    \/ FeatureDtorStop
    \/ FeatureDtorNotify
    \/ FeatureDtorJoin
    \/ MappingDtorStop
    \/ MappingDtorNotify
    \/ MappingDtorJoin

SpecPipe == InitPipe /\ [][NextPipe]_vars

\* Both workers are OS threads: one that can run does run.
SpecPipeFair ==
    /\ InitPipe
    /\ [][NextPipe]_vars
    /\ WF_vars(FeatureWorker)
    /\ WF_vars(MappingWorker)

(***************************************************************************)
(* SpecCtor: the two constructors run, in either order, on a parameter     *)
(* server holding any of ParamInputs.                                      *)
(***************************************************************************)
MaxExtrinsicLen == 7

\* /tailor/livox_transform with 0 .. MaxExtrinsicLen elements.
ExtrinsicInputs == {[k \in 1 .. n |-> k] : n \in 0 .. MaxExtrinsicLen}

ParamInputs ==
    [use_livox : BOOLEAN, use_velodyne : BOOLEAN, livox_transform : ExtrinsicInputs]

\* Outcomes of a read outside the vector: the process dies, or the read
\* yields whatever the memory holds.
UndefinedReads(cab) ==
    IF Len(cab) < 6
    THEN {[crash |-> TRUE, value |-> 0], [crash |-> FALSE, value |-> 0],
          [crash |-> FALSE, value |-> 99]}
    ELSE {NoUndefinedRead}

InitCtor ==
    /\ RingIdle
    /\ OdomIdle
    /\ PipeIdle
    /\ RegIdle
    /\ nh \in ParamInputs
    /\ stages = [feature |-> NotBuilt, mapping |-> NotBuilt]
    /\ startup = NoStartup

FeatureCtor ==
    /\ stages.feature = NotBuilt
    /\ ~stages.mapping.crashed
    /\ \E ub \in UndefinedReads(nh.livox_transform) :
          stages' = [stages EXCEPT !.feature = feature_thread_ctor(nh, ub)]
    /\ UNCHANGED <<nh, startup, ringVars, odomVars, pipeVars, regVars>>

MappingCtor ==
    /\ stages.mapping = NotBuilt
    /\ ~stages.feature.crashed
    /\ \E ub \in UndefinedReads(nh.livox_transform) :
          stages' = [stages EXCEPT !.mapping = mapping_thread_ctor(nh, ub)]
    /\ UNCHANGED <<nh, startup, ringVars, odomVars, pipeVars, regVars>>

NextCtor == FeatureCtor \/ MappingCtor

SpecCtor == InitCtor /\ [][NextCtor]_vars

(***************************************************************************)
(* SpecFeatures: the feature stage on its own, constructed from any sensor *)
(* selection with a well-formed extrinsic: the sync layer pushes, the      *)
(* worker extracts and publishes into the mapping queue, the destructor    *)
(* may run at any time.                                                    *)
(***************************************************************************)
InitFeatures ==
    /\ RingIdle
    /\ OdomIdle
    /\ RegIdle
    /\ startup = NoStartup
    /\ nh \in {params \in ParamInputs : Len(params.livox_transform) = 6}
    /\ stages = [feature |-> feature_thread_ctor(nh, NoUndefinedRead),
                 mapping |-> mapping_thread_ctor(nh, NoUndefinedRead)]
    /\ sensors = [use_velodyne |-> stages.feature.use_velodyne,
                  use_livox |-> stages.feature.use_livox]
    /\ f_q = <<>>
    /\ f_pq = <<>>
    /\ f_pc = "acquire"
    /\ f_stop = FALSE
    /\ f_dtor = "alive"
    /\ m_q = <<>>
    /\ m_pq = <<>>
    /\ m_pc = "acquire"
    /\ m_stop = FALSE
    /\ m_dtor = "alive"
    /\ sent = 0
    /\ published = <<>>
    /\ mapped = <<>>
    /\ late = [features |-> {}, mapping |-> {}]
    /\ dropped = [features |-> {}, mapping |-> {}]
    /\ save_path = ""
    /\ trace_files = <<>>
    /\ pub_path = <<>>
    /\ f_last = NoExtraction

NextFeatures ==
    \/ SyncPush
    \/ FeatureAcquire
    \/ FeatureLoop
    \/ FeatureDtorStop
    \/ FeatureDtorNotify
    \/ FeatureDtorJoin

SpecFeatures == InitFeatures /\ [][NextFeatures]_vars

(***************************************************************************)
(* SpecLM2: one call of LM2.  What Ab returns on each iteration (the       *)
(* number of correspondences and the normal equations) is an input.        *)
(***************************************************************************)
Diagonal(d) == [r \in Axes |-> [c \in Axes |-> IF r = c THEN d[r] ELSE 0]]

\* A normal matrix with one eigenvalue one unit below the threshold.
WeakYaw == Diagonal(<<40, 40, 40, 40, 40, degenerate_threshold - 1>>)

\* A normal matrix with every eigenvalue exactly at the threshold.
AtThreshold == Diagonal([k \in Axes |-> degenerate_threshold])

\* What Ab may return: no correspondence; a system already solved; a pull
\* along x; a yaw step of 3 units on a matrix at the threshold (squared norm
\* 9); a yaw pull on the weak matrix; and a step of 3 along x and 1 along y
\* (squared norm 10).
AbInputs ==
    {[top |-> 0, ATA |-> Diagonal(<<0, 0, 0, 0, 0, 0>>), ATb |-> <<0, 0, 0, 0, 0, 0>>],
     [top |-> 12, ATA |-> Diagonal(<<40, 40, 40, 40, 40, 40>>),
      ATb |-> <<0, 0, 0, 0, 0, 0>>],
     [top |-> 12, ATA |-> Diagonal(<<40, 40, 40, 40, 40, 40>>),
      ATb |-> <<400, 0, 0, 0, 0, 0>>],
     [top |-> 12, ATA |-> AtThreshold, ATb |-> <<0, 0, 0, 0, 0, 60>>],
     [top |-> 12, ATA |-> WeakYaw, ATb |-> <<0, 0, 0, 0, 0, 80>>],
     [top |-> 12, ATA |-> Diagonal(<<40, 40, 40, 40, 40, 40>>),
      ATb |-> <<120, 40, 0, 0, 0, 0>>]}

InitLM2 ==
    /\ RingIdle
    /\ OdomIdle
    /\ PipeIdle
    /\ CtorDone
    /\ RegIdle

LM2Enter ==
    /\ lm2.pc = "idle"
    /\ \E initial \in {ZeroTransform, CruiseTransform} :
          lm2' = lm2_enter(degenerate_threshold, initial)
    /\ UNCHANGED <<ringVars, odomVars, pipeVars, ctorVars>>

LM2Iterate ==
    /\ lm2.pc = "iterating"
    /\ \E N \in AbInputs : lm2' = lm2_iterate(lm2, N)
    /\ UNCHANGED <<ringVars, odomVars, pipeVars, ctorVars>>

NextLM2 == LM2Enter \/ LM2Iterate

SpecLM2 == InitLM2 /\ [][NextLM2]_vars

(***************************************************************************)
(* SpecStartup: the constructor of mapping_thread, statement by statement, *)
(* interleaved with the worker it starts and with the feature stage        *)
(* invoking feature_frame_delegate.  The destructor is not called.         *)
(***************************************************************************)
MaxStartupFrames == 2

\* /tailor/degenerate_threshold: the default 10.0 or 4.0.
ThresholdParams == {degenerate_threshold, 8}

\* What a read of the unassigned float may yield.
UnassignedFloats == {0, 99}

InitStartup ==
    /\ RingIdle
    /\ OdomIdle
    /\ PipeIdle
    /\ RegIdle
    /\ nh = DefaultParams
    /\ stages = [feature |-> feature_thread_ctor(DefaultParams, NoUndefinedRead),
                 mapping |-> NotBuilt]
    /\ startup \in {[NoStartup EXCEPT !.param = p] : p \in ThresholdParams}

StartupStep(next) ==
    /\ startup' = next
    /\ UNCHANGED <<nh, stages, ringVars, odomVars, pipeVars, regVars>>

CtorStartThread ==
    /\ startup.ctor_pc = "thread"
    /\ StartupStep(mapping_ctor_start_thread(startup))

CtorAppend ==
    /\ startup.ctor_pc = "append"
    /\ StartupStep(mapping_ctor_append(startup))

CtorLivoxTransform ==
    /\ startup.ctor_pc = "livox_transform"
    /\ StartupStep(mapping_ctor_livox_transform(startup, nh, NoUndefinedRead))

CtorDegenerateThreshold ==
    /\ startup.ctor_pc = "degenerate_threshold"
    /\ StartupStep(mapping_ctor_degenerate_threshold(startup))

WorkerEnter ==
    /\ startup.thread_started
    /\ startup.w_pc = "not_started"
    /\ StartupStep(mapping_worker_enter(startup))

WorkerCopyThreshold ==
    /\ startup.w_pc = "copy_threshold"
    /\ \E garbage \in (IF startup.degenerate_threshold.assigned
                        THEN {0} ELSE UnassignedFloats) :
          StartupStep(mapping_worker_copy_threshold(startup, garbage))

WorkerAcquire ==
    /\ startup.w_pc = "acquire"
    /\ synced_queue_ready(startup.q, FALSE)
    /\ StartupStep(mapping_worker_acquire(startup))

WorkerProcess ==
    /\ startup.w_pc = "process"
    /\ \E has_value \in BOOLEAN :
          StartupStep(mapping_worker_process(startup, has_value))

ProducerPublish ==
    /\ startup.sent < MaxStartupFrames
    /\ StartupStep(feature_frame_delegate(startup))

NextStartup ==
    \/ CtorStartThread
    \/ CtorAppend
    \/ CtorLivoxTransform
    \/ CtorDegenerateThreshold
    \/ WorkerEnter
    \/ WorkerCopyThreshold
    \/ WorkerAcquire
    \/ WorkerProcess
    \/ ProducerPublish

SpecStartup == InitStartup /\ [][NextStartup]_vars

(***************************************************************************)
(* Properties.                                                             *)
(***************************************************************************)
Min(a, b) == IF a < b THEN a ELSE b

\* The slot reached from head by walking k - 1 steps backwards, modulo the
\* ring size.
BackSlot(lm, k) == (lm.head + previous_frame_count - (k - 1)) % previous_frame_count

(* C1: whenever the ring holds an entry, what get_local_map() returns now   *)
(* equals the fused map recomputed from the current slots and transforms    *)
(* (so a set() issued after a get_local_map() shows in the next one).       *)
C1_CacheCoherent ==
    lmap.counters > 0 => get_local_map(lmap).local_map = update_local_map(lmap)

(* C2: after n pushes counters = min(n, 20), and walking backwards from     *)
(* head for counters steps visits the frames of pushes n, n-1, ...,         *)
(* n-counters+1 in that order.                                              *)
C2_RingWrapAround ==
    /\ lmap.counters = Min(pushes, previous_frame_count)
    /\ \A k \in 1 .. lmap.counters :
          lmap.prev_frames[BackSlot(lmap, k)].id = pushes - k + 1

\* 25 pushes: the ring is full and holds exactly pushes 6..25.
C2_Witness ==
    /\ pushes = 25
    /\ lmap.counters = 20
    /\ {lmap.prev_frames[i].id : i \in Slots} = 6 .. 25

(* C3: set(back_index, M) with 1 <= back_index <= counters writes an index  *)
(* inside the array, overwrites the transform of exactly the entry pushed   *)
(* back_index - 1 pushes before the most recent one, and leaves head,       *)
(* counters, every frame and every other slot's transform unchanged.        *)
C3_SetFrameEffect ==
    last.op = "set" =>
        LET old == last.before
            target == pushes - last.back_index + 1
        IN  /\ set_index(old, last.back_index) \in Slots
            /\ lmap.head = old.head
            /\ lmap.counters = old.counters
            /\ lmap.prev_frames = old.prev_frames
            /\ \A i \in Slots :
                  IF old.prev_frames[i].id = target
                  THEN lmap.prev_frame_location[i] = CorrectedPose(target)
                  ELSE lmap.prev_frame_location[i] = old.prev_frame_location[i]

\* A set on a full, wrapped ring that takes the wrapped branch of set_index.
C3_Witness ==
    /\ last.op = "set"
    /\ last.before.counters = previous_frame_count
    /\ last.back_index > last.before.head + 1
    /\ pushes > previous_frame_count

\* A set before the ring has wrapped, on an entry other than the head.
C3_WitnessUnwrapped ==
    /\ last.op = "set"
    /\ last.before.counters < previous_frame_count
    /\ last.back_index > 1


\* The six magnitudes of Tr with their per-axis thresholds.
Magnitudes(Tr) ==
    <<<<Abs(Tr.x), key_frame_distance_x>>, <<Abs(Tr.y), key_frame_distance_y>>,
      <<Abs(Tr.z), key_frame_distance_z>>, <<Abs(Tr.roll), key_frame_distance_roll>>,
      <<Abs(Tr.pitch), key_frame_distance_pitch>>, <<Abs(Tr.yaw), key_frame_distance_yaw>>>>

AllStrictlyBelow(Tr) == \A a \in 1 .. 6 : Magnitudes(Tr)[a][1] < Magnitudes(Tr)[a][2]

(* C4 as stated: for every mapping() call whose update succeeds with        *)
(* increment Tr, if all six magnitudes are strictly below their thresholds  *)
(* then counters and the trajectory length do not grow, and otherwise both  *)
(* grow by exactly 1.                                                       *)
C4_KeyframeGate ==
    (lastCall.op = "mapping" /\ lastCall.ok) =>
        IF AllStrictlyBelow(lastCall.Tr)
        THEN /\ vo.local_maps.counters = lastCall.counters
             /\ Len(vo.final_path) = lastCall.poses
        ELSE /\ vo.local_maps.counters = lastCall.counters + 1
             /\ Len(vo.final_path) = lastCall.poses + 1

(* C4 as amended: for every mapping() call whose update succeeds with       *)
(* increment Tr on a ring that already holds an entry, if all six           *)
(* magnitudes are strictly below their thresholds then nothing is pushed    *)
(* and counters and the trajectory length are unchanged; otherwise exactly  *)
(* one entry is pushed, the trajectory length grows by exactly 1, and       *)
(* counters grows by 1 unless the ring is full, where it stays 20.          *)
C4_KeyframeGateAmended ==
    (lastCall.op = "mapping" /\ lastCall.ok /\ lastCall.counters > 0) =>
        IF AllStrictlyBelow(lastCall.Tr)
        THEN /\ vo.local_maps.counters = lastCall.counters
             /\ Len(vo.final_path) = lastCall.poses
             /\ vo_pushes = lastCall.pushes
        ELSE /\ vo.local_maps.counters =
                   Min(lastCall.counters + 1, previous_frame_count)
             /\ Len(vo.final_path) = lastCall.poses + 1
             /\ vo_pushes = lastCall.pushes + 1

\* A frame whose only motion is a yaw exactly at its threshold, promoted
\* while the ring is full.
C4_Witness ==
    /\ lastCall.op = "mapping"
    /\ lastCall.ok
    /\ lastCall.counters = previous_frame_count
    /\ lastCall.Tr = MkTransform(0, 0, 0, 0, 0, 0 - key_frame_distance_yaw)
    /\ Len(vo.final_path) = lastCall.poses + 1

\* A frame with every magnitude one unit below its threshold, dropped.
C4_WitnessBelow ==
    /\ lastCall.op = "mapping"
    /\ lastCall.ok
    /\ lastCall.counters > 0
    /\ lastCall.Tr = JustBelow
    /\ Len(vo.final_path) = lastCall.poses

(* C5: after any sequence of mapping() calls the trajectory holds one pose  *)
(* for every frame pushed into the ring, so its length equals the total     *)
(* number of local_maps.push calls.                                         *)
C5_TrajectoryMirrorsPushes == Len(vo.final_path) = vo_pushes

(* C6: after 50 well-featured frames with a zero increment for every frame  *)
(* after the first, the ring holds exactly 1 keyframe, the trajectory has   *)
(* exactly 1 pose, that pose is the origin, and there is no loop edge.      *)
C6_StaticScene ==
    run = MaxStaticFrames =>
        /\ vo.local_maps.counters = 1
        /\ Len(vo.final_path) = 1
        /\ vo.final_path[1].pose = to_ros_pose(Identity)
        /\ vo.loop.loop = <<>>
        /\ vo.loop_markers = <<>>

\* What the code does hold in the static scene: one keyframe at the origin
\* in the ring, no loop edge, and an empty trajectory.
StaticSceneAsBuilt ==
    run = MaxStaticFrames =>
        /\ vo.local_maps.counters = 1
        /\ tr(vo.local_maps) = Identity
        /\ Len(vo.final_path) = 0
        /\ vo.loop.loop = <<>>
        /\ vo.loop_markers = <<>>

\* The messages held in a mapping queue or batch.
Messages(seq) == {seq[i].msg : i \in 1 .. Len(seq)}

StrictlyIncreasing(seq) == \A i, j \in 1 .. Len(seq) : i < j => seq[i] < seq[j]

\* C7: in every interleaving of the producer and the two workers, the frames
\* passed to mapping() are a subsequence of the messages pushed into the
\* feature queue (1, 2, ..., sent), in the same order, none of them twice.
C7_CaptureOrder ==
    /\ Elements(mapped) \subseteq 1 .. sent
    /\ StrictlyIncreasing(mapped)
    /\ Elements(published) \subseteq 1 .. sent
    /\ StrictlyIncreasing(published)

\* Messages 1 and 3 were mapped; message 2 was filtered out on the way.
C7_Witness == sent = 3 /\ mapped = <<1, 3>>

C8_WitnessRunning ==
    /\ ~m_stop
    /\ published = <<1, 2, 3>>
    /\ mapped = <<1, 2, 3>>

C9_WitnessBlocked ==
    /\ m_dtor = "joined"
    /\ sent = 0

\* C10 as stated: an item pushed after should_stop was set is never processed
\* and is removed from the queue by the worker, so none is in the queue once
\* the worker has ended.
C10_LateDrained ==
    /\ late.features \cap Elements(published) = {}
    /\ late.mapping \cap Elements(mapped) = {}
    /\ (f_pc = "done" /\ f_dtor = "join") => late.features \cap Elements(f_q) = {}
    /\ (m_pc = "done" /\ m_dtor = "join") => late.mapping \cap Messages(m_q) = {}

\* C10 amended: an item pushed after should_stop was set is accepted and is
\* never processed; the worker removes and discards it if it acquires again
\* before it ends, otherwise the item stays in the queue.
C10_LateNeverProcessed ==
    /\ late.features \cap Elements(published) = {}
    /\ late.mapping \cap Elements(mapped) = {}
    /\ late.features \subseteq Elements(f_q) \cup Elements(f_pq) \cup dropped.features
    /\ late.mapping \subseteq Messages(m_q) \cup Messages(m_pq) \cup dropped.mapping
    /\ f_pc = "done" => late.features \subseteq Elements(f_q) \cup dropped.features
    /\ m_pc = "done" => late.mapping \subseteq Messages(m_q) \cup dropped.mapping

\* Both cases of a late item in both stages: one discarded by the worker, one
\* left in the queue of a worker that has ended.
C10_Witness ==
    /\ f_pc = "done"
    /\ late.features \cap dropped.features # {}
    /\ late.features \cap Elements(f_q) # {}

C10_WitnessMapping ==
    /\ m_pc = "done"
    /\ late.mapping \cap dropped.mapping # {}

(* C11: the trajectory file is written at most once, only by the epilogue   *)
(* of a mapping worker that has left its loop, exactly when the save path   *)
(* is non-empty and the trajectory is non-empty, and it has one line for    *)
(* every keyframe (every frame pushed into the ring) at stop time.          *)
C11_TrajectoryDump ==
    /\ Len(trace_files) <= 1
    /\ trace_files # <<>> => m_pc = "done"
    /\ m_pc = "done" => (trace_files # <<>> <=> (save_path # "" /\ vo.final_path # <<>>))
    /\ \A f \in 1 .. Len(trace_files) : Len(trace_files[f]) = vo_pushes

\* What the epilogue does write: one line for every pose of final_path, which
\* is one fewer than the keyframes pushed.
TrajectoryDumpAsBuilt ==
    /\ Len(trace_files) <= 1
    /\ trace_files # <<>> => m_pc = "done"
    /\ m_pc = "done" => (trace_files # <<>> <=> (save_path # "" /\ vo.final_path # <<>>))
    /\ \A f \in 1 .. Len(trace_files) :
          /\ trace_files[f] = [j \in 1 .. Len(vo.final_path) |-> vo.final_path[j].stamp]
          /\ Len(trace_files[f]) = vo_pushes - 1

\* A file was written for a run of three keyframes.
TrajectoryDumpWitness ==
    /\ trace_files # <<>>
    /\ vo_pushes = 3

\* A configuration error of the feature stage: both sensors disabled, or an
\* extrinsic parameter that does not have exactly 6 elements.
ConfigError(params) ==
    \/ ~params.use_livox /\ ~params.use_velodyne
    \/ Len(params.livox_transform) # 6

(* C12: when both sensors are disabled or the extrinsic parameter does not  *)
(* have exactly 6 elements, the constructor of the feature stage aborts:    *)
(* the worker is not started, the stage does not subscribe, and no element  *)
(* of the extrinsic vector is read.                                         *)
C12_ConfigErrorsFatal ==
    (stages.feature # NotBuilt /\ ConfigError(nh)) =>
        /\ ~stages.feature.thread_started
        /\ ~stages.feature.subscribed
        /\ stages.feature.reads = {}

\* What the constructor does on a configuration error: it logs, and then it
\* reads the six elements and, unless an out-of-range read ends the
\* process, subscribes and starts the worker with both sensors enabled when
\* both were disabled.
ConfigErrorsAsBuilt ==
    (stages.feature # NotBuilt /\ ConfigError(nh)) =>
        /\ stages.feature.fatal >= 1
        /\ stages.feature.reads # {}
        /\ ~stages.feature.crashed =>
              /\ stages.feature.thread_started
              /\ stages.feature.subscribed
              /\ stages.feature.use_livox \/ stages.feature.use_velodyne
        /\ stages.feature.crashed => Len(nh.livox_transform) < 6

\* A cloud that is present and has fewer than n points.
Short(cloud, n) == cloud # Absent /\ cloud < n

\* A frame update rejects: a present line cloud with fewer than 10 points, or
\* a present plane or non-feature cloud with fewer than 100 points.
UnderFeatured(frame) ==
    \E object \in {frame.velodyne_feature, frame.livox_feature} :
       \/ Short(object.line_features, 10)
       \/ Short(object.plane_features, 100)
       \/ Short(object.non_features, 100)

(* C13: a mapping() call on an under-featured frame returns no pose, has    *)
(* nothing published for the frame, and leaves the whole odometry object    *)
(* (ring head, count, slots and cache, trajectory, next_initial_guess, loop *)
(* state) as it was, so the calls before and after it see the same object   *)
(* as if the frame had never arrived.                                       *)
C13_RejectionLeavesState ==
    [][(lastCall'.op = "mapping" /\ UnderFeatured(lastCall'.frame)) =>
          /\ ~lastCall'.ok
          /\ ~lastCall'.has_value
          /\ ~mapping_publishes(lastCall'.has_value)
          /\ vo' = vo
          /\ vo_pushes' = vo_pushes]_vars

\* A frame with 99 spin plane points was rejected on a full ring.
C13_Witness ==
    /\ lastCall.op = "mapping"
    /\ lastCall.frame.velodyne_feature.plane_features = 99
    /\ ~lastCall.ok
    /\ lastCall.counters = previous_frame_count
    /\ Len(vo.final_path) = lastCall.poses

\* A frame with 9 line points was rejected as the very first frame.
C13_WitnessFirst ==
    /\ lastCall.op = "mapping"
    /\ lastCall.frame.velodyne_feature.line_features = 9
    /\ ~lastCall.has_value
    /\ vo.local_maps = NewLocalMap

\* The uncorrected pose M of the last call: the head pose before the call
\* composed with the registered increment.
UncorrectedPose(before, Tr) ==
    LET head == before.local_maps.prev_frame_location[before.local_maps.head]
    IN  [t |-> <<head.t[1] + Tr.x, head.t[2] + Tr.y, head.t[3] + Tr.z>>,
         r |-> <<head.r[1] + Tr.roll, head.r[2] + Tr.pitch, head.r[3] + Tr.yaw>>,
         init |-> head.init]

\* The step is a mapping() call that reached loop_detection: the loop module
\* holds one keyframe more.
LoopAdapterCalled ==
    /\ lastCall'.op = "mapping"
    /\ Len(vo'.loop.keyframes) = Len(vo.loop.keyframes) + 1

(* C14: when loop_detection answers k > 0, every ring entry i = 1..count    *)
(* holds loop.btr(i), every trajectory pose at index j with k <= j < length *)
(* is loop.tr(j), the poses below k, the length and all time stamps are as  *)
(* they were after the append, and loop.btr(1) is returned; when it answers *)
(* 0 the ring transforms, the trajectory and the marker list are unchanged  *)
(* and the uncorrected pose M is returned.                                  *)
C14_LoopAdapterRewrite ==
    [][LoopAdapterCalled =>
          LET k == lastCall'.result
              M == UncorrectedPose(vo, lastCall'.Tr)
              appended == Append(vo.final_path,
                                 [stamp |-> lastCall'.frame.id,
                                  pose |-> [position |-> M.t, orientation |-> M.r]])
              ring == vo'.local_maps
          IN  IF k > 0
              THEN /\ \A i \in 1 .. ring.counters :
                         ring.prev_frame_location[BackSlot(ring, i)]
                            = loop_var_btr(vo'.loop, i)
                   /\ Len(vo'.final_path) = Len(appended)
                   /\ \A j \in 0 .. Len(appended) - 1 :
                         /\ vo'.final_path[j + 1].stamp = appended[j + 1].stamp
                         /\ IF j >= k
                            THEN vo'.final_path[j + 1].pose.position
                                    = loop_var_tr(vo'.loop, j).t
                                 /\ vo'.final_path[j + 1].pose.orientation
                                    = loop_var_tr(vo'.loop, j).r
                            ELSE vo'.final_path[j + 1] = appended[j + 1]
                   /\ lastCall'.value = loop_var_btr(vo'.loop, 1)
              ELSE /\ \A i \in Slots :
                         ring.prev_frame_location[i] =
                            IF i = ring.head THEN M
                            ELSE vo.local_maps.prev_frame_location[i]
                   /\ vo'.final_path = appended
                   /\ vo'.loop_markers = vo.loop_markers
                   /\ lastCall'.value = M]_vars

\* A correction from index 2 on a full ring: the trajectory poses 0 and 1
\* keep their values, the later ones are the corrected ones.
C14_Witness ==
    /\ lastCall.op = "mapping"
    /\ lastCall.result = 2
    /\ lastCall.counters = previous_frame_count
    /\ Len(vo.final_path) > previous_frame_count
    /\ vo.final_path[2].pose.position = KeyframePose(3).t
    /\ vo.final_path[3].pose.position = CorrectedPose(4).t
    /\ lastCall.value = loop_var_btr(vo.loop, 1)

\* A keyframe on which the loop module reported no change, after an earlier
\* correction had left markers.
C14_WitnessNoChange ==
    /\ lastCall.op = "mapping"
    /\ lastCall.result = 0
    /\ vo.config.enable_loop
    /\ vo.loop_markers # <<>>
    /\ Len(vo.final_path) = lastCall.poses + 1

\* The frame passes the check of every enabled sensor: spin enabled needs at
\* least 20 line points and 100 plane points, solid enabled needs non-empty
\* plane and non-feature clouds.
PassesEnabled(cfg, found) ==
    /\ cfg.use_velodyne =>
          /\ found.velodyne_feature.line_features >= 20
          /\ found.velodyne_feature.plane_features >= 100
    /\ cfg.use_livox =>
          /\ found.livox_feature.plane_features > 0
          /\ found.livox_feature.non_features > 0

\* The feature worker takes the front message of its batch while should_stop
\* is false.
FeatureBodyStep ==
    /\ f_pc = "loop"
    /\ f_pq # <<>>
    /\ ~f_stop
    /\ f_pq' # f_pq

(* C15: for every message the feature worker takes from its batch while     *)
(* should_stop is false, the feature delegate is invoked exactly once if    *)
(* the frame passes every enabled sensor's check and not at all otherwise;  *)
(* either way the message is removed from the batch and the worker goes on  *)
(* with the following messages of the batch.                                *)
C15_PublicationRule ==
    [][FeatureBodyStep =>
          /\ f_last'.msg = Head(f_pq)
          /\ Head(f_pq) \notin Elements(published)
          /\ IF PassesEnabled(sensors, f_last'.extracted)
             THEN /\ published' = Append(published, Head(f_pq))
                  /\ Len(m_q') = Len(m_q) + 1
                  /\ m_q'[Len(m_q')].msg = Head(f_pq)
             ELSE /\ published' = published
                  /\ m_q' = m_q
          /\ f_pq' = Tail(f_pq)
          /\ f_pc' = "loop"]_vars

\* With only the solid-state sensor enabled, message 2 had no plane points
\* and was not published, and message 3 after it was.
C15_Witness ==
    /\ ~sensors.use_velodyne
    /\ sensors.use_livox
    /\ published = <<1, 3>>
    /\ f_last = [msg |-> 3, extracted |-> GoodFrame(3)]
    /\ ~f_stop

\* With only the spin sensor enabled a frame without solid-state plane points
\* is published.
C15_WitnessSpinOnly ==
    /\ sensors.use_velodyne
    /\ ~sensors.use_livox
    /\ f_last = [msg |-> 1, extracted |-> MkFrame(1, 20, 100, 0, 100)]
    /\ published = <<1>>

\* A matrix has an eigenvalue below the threshold (its diagonal entries,
\* for the diagonal matrices fed in).
HasWeakEigenvalue(ATA, threshold) == \E k \in Axes : ATA[k][k] < threshold

(* C16: within one LM2 call the eigenvalue test and the ridge act in the    *)
(* first iteration only: there, every diagonal element of ATA grows by 0.5  *)
(* (one unit) exactly when some eigenvalue is below degenerate_threshold;   *)
(* in every other case ATA is used as built; an off-diagonal element never  *)
(* changes.                                                                 *)
C16_DegeneracyFirstOnly ==
    (lm2.last.i >= 0 /\ lm2.last.top > 0) =>
        LET built == lm2.last.ATA_in
            used == lm2.last.ATA_out
        IN  /\ \A r, c \in Axes : r # c => used[r][c] = built[r][c]
            /\ IF lm2.last.i = 0 /\ HasWeakEigenvalue(built, lm2.threshold)
               THEN \A k \in Axes : used[k][k] = built[k][k] + 1
               ELSE used = built

\* The first iteration met the matrix with a weak yaw eigenvalue and solved
\* with the ridge on all six diagonal elements.
C16_Witness ==
    /\ lm2.last.i = 0
    /\ lm2.last.top > 0
    /\ lm2.last.ATA_in = WeakYaw
    /\ lm2.last.ATA_out = Diagonal(<<41, 41, 41, 41, 41, degenerate_threshold>>)

\* The fourth iteration met the same matrix and solved with it as built.
C16_WitnessLater ==
    /\ lm2.last.i = 3
    /\ lm2.last.top > 0
    /\ lm2.last.ATA_in = WeakYaw
    /\ lm2.last.ATA_out = WeakYaw

\* Both squared norms of a step are below 1e-7.
BothSmall(delta) ==
    /\ delta[1] * delta[1] + delta[2] * delta[2] + delta[3] * delta[3] < 10
    /\ delta[4] * delta[4] + delta[5] * delta[5] + delta[6] * delta[6] < 10

\* The estimate after the last step.
Stepped(seen) ==
    MkTransform(seen.before.x + seen.delta[1], seen.before.y + seen.delta[2],
                seen.before.z + seen.delta[3], seen.before.roll + seen.delta[4],
                seen.before.pitch + seen.delta[5], seen.before.yaw + seen.delta[6])

(* C17: LM2 performs at most 30 iterations and always has a way to go on    *)
(* or return; with no correspondence it returns the estimate accumulated so *)
(* far (the initial guess, on the first iteration); it returns the stepped  *)
(* estimate as soon as both squared step norms are below 1e-7, and not      *)
(* before; otherwise it returns the estimate after the 30th step.           *)
C17_RegistrationTerminates ==
    /\ lm2.pc \in {"idle", "iterating", "no_feature", "converged", "exhausted"}
    /\ lm2.iterations <= 30
    /\ lm2.pc = "iterating" =>
          /\ lm2.i = lm2.iterations
          /\ ENABLED LM2Iterate
          /\ lm2.iterations > 0 =>
                /\ ~BothSmall(lm2.last.delta)
                /\ lm2.initial = Stepped(lm2.last)
    /\ lm2.pc = "no_feature" =>
          /\ lm2.ret = lm2.initial
          /\ lm2.iterations = 1 => lm2.ret = lm2.start
    /\ lm2.pc = "converged" =>
          /\ BothSmall(lm2.last.delta)
          /\ lm2.ret = Stepped(lm2.last)
    /\ lm2.pc = "exhausted" =>
          /\ lm2.iterations = 30
          /\ ~BothSmall(lm2.last.delta)
          /\ lm2.ret = Stepped(lm2.last)

\* Thirty steps none of which was small: the call returned the estimate
\* after the 30th.
C17_Witness ==
    /\ lm2.pc = "exhausted"
    /\ lm2.iterations = 30
    /\ lm2.ret.x = lm2.start.x + 300

\* No correspondence on the first iteration: the initial guess came back.
C17_WitnessNoFeature ==
    /\ lm2.pc = "no_feature"
    /\ lm2.iterations = 1
    /\ lm2.start = CruiseTransform
    /\ lm2.ret = CruiseTransform

\* An early return on the seventh iteration with a yaw step of squared norm 9.
C17_WitnessConverged ==
    /\ lm2.pc = "converged"
    /\ lm2.iterations = 7
    /\ lm2.last.delta = <<0, 0, 0, 0, 0, 3>>

\* The pushes the ring holds: the counters most recent ones.
HeldPushes == (pushes - lmap.counters + 1) .. pushes

\* The slot that holds the frame of push n.
SlotOf(n) == CHOOSE i \in Slots : lmap.prev_frames[i].id = n

\* The positions of the fused map that carry the points of push n.
ContributionsOf(fused, n) == {k \in 1 .. Len(fused) : fused[k].frame.id = n}

\* get_local_map has just rebuilt the fused map.
Rebuilt == last.op = "get" /\ last.before.local_map_dirty

(* C18: the fused map built by get_local_map() holds the points of exactly  *)
(* the min(n, 20) most recently pushed entries, every entry once (the head  *)
(* included) and under inverse(M_head) * M_i; nothing else contributes.     *)
C18_FusedMapContents ==
    Rebuilt =>
       /\ Len(lmap.local_map) = lmap.counters
       /\ \A n \in HeldPushes :
             /\ Cardinality(ContributionsOf(lmap.local_map, n)) = 1
             /\ \A k \in ContributionsOf(lmap.local_map, n) :
                   /\ lmap.local_map[k].frame = lmap.prev_frames[SlotOf(n)]
                   /\ lmap.local_map[k].transform =
                         MatMul(MatInverse(tr(lmap)), lmap.prev_frame_location[SlotOf(n)])
       /\ \A k \in 1 .. Len(lmap.local_map) : lmap.local_map[k].frame.id \in HeldPushes

\* What the code builds: as the claim says for every entry but the head,
\* whose points are in the map twice, once copied and once transformed.
FusedMapAsBuilt ==
    Rebuilt =>
       /\ Len(lmap.local_map) = lmap.counters + 1
       /\ \A n \in HeldPushes :
             /\ Cardinality(ContributionsOf(lmap.local_map, n)) = IF n = pushes THEN 2 ELSE 1
             /\ \A k \in ContributionsOf(lmap.local_map, n) :
                   /\ lmap.local_map[k].frame = lmap.prev_frames[SlotOf(n)]
                   /\ lmap.local_map[k].transform =
                         MatMul(MatInverse(tr(lmap)), lmap.prev_frame_location[SlotOf(n)])
       /\ \A k \in 1 .. Len(lmap.local_map) : lmap.local_map[k].frame.id \in HeldPushes

\* A rebuild of a wrapped ring after a set.
FusedMapWitness ==
    /\ Rebuilt
    /\ pushes = 25
    /\ lmap.counters = previous_frame_count
    /\ \E i \in Slots : lmap.prev_frame_location[i] = CorrectedPose(lmap.prev_frames[i].id)

\* The keyframes submitted to the loop module so far: mapping() calls
\* loop_detection once per trajectory pose when loop closure is enabled.
LoopDetectionCalls == Len(vo.loop.keyframes)

\* The last mapping() call applied a loop correction.
CorrectionApplied == lastCall.op = "mapping" /\ lastCall.result > 0

(* C19: whenever a loop correction is applied, every back-index             *)
(* i = 1..count passed to loop.btr names a keyframe that was submitted to   *)
(* the loop module: count does not exceed the number of loop_detection      *)
(* calls made so far.                                                       *)
C19_LoopBackIndexRange ==
    CorrectionApplied =>
       \A i \in 1 .. vo.local_maps.counters : i <= LoopDetectionCalls

\* What the code does: the ring holds the first frame as well, which was
\* never submitted, until 20 submitted keyframes have pushed it out.
LoopBackIndexAsBuilt ==
    /\ vo.config.enable_loop =>
          /\ LoopDetectionCalls = Len(vo.final_path)
          /\ vo.local_maps.counters =
                IF vo_pushes = 0 THEN 0
                ELSE Min(LoopDetectionCalls + 1, previous_frame_count)
    /\ CorrectionApplied =>
          /\ vo.config.enable_loop
          /\ LoopDetectionCalls < previous_frame_count =>
                /\ vo.local_maps.counters = LoopDetectionCalls + 1
                /\ vo.local_maps.prev_frame_location[
                       BackSlot(vo.local_maps, vo.local_maps.counters)] = Uninitialized

\* The 20-frame run: frames 2..20 are keyframes and the correction fires on
\* frame 20, with 20 ring entries against 19 submitted keyframes.
LoopBackIndexWitness ==
    /\ CorrectionApplied
    /\ lastCall.frame.id = previous_frame_count
    /\ vo.local_maps.counters = previous_frame_count
    /\ LoopDetectionCalls = previous_frame_count - 1

\* An assertion of local_map holds for the values it was evaluated with.
AssertionHolds(a) ==
    /\ a.at \in {"update_local_map", "tr", "set"}
    /\ a.at \in {"update_local_map", "tr"} => a.counters > 0
    /\ a.at = "set" => 1 <= a.back_index /\ a.back_index <= a.counters

\* The entries of a sequence of assertions made at one place.
AssertedAt(asserts, at) == {k \in 1 .. Len(asserts) : asserts[k].at = at}

(* C20: in every mapping() call, whatever the frame, the registration       *)
(* result, the loop setting and the loop module's answer, tr() and the      *)
(* fused-map rebuild are reached only with count > 0 and set is called only *)
(* with 1 <= back_index <= count.                                           *)
C20_AssertionsHold ==
    \A k \in 1 .. Len(lastCall.asserts) : AssertionHolds(lastCall.asserts[k])

\* A keyframe on a full ring with a loop correction: the map was rebuilt,
\* tr() was read and set was called for back_index 1..20.
C20_Witness ==
    /\ lastCall.op = "mapping"
    /\ lastCall.counters = previous_frame_count
    /\ AssertedAt(lastCall.asserts, "update_local_map") # {}
    /\ AssertedAt(lastCall.asserts, "tr") # {}
    /\ {lastCall.asserts[k].back_index : k \in AssertedAt(lastCall.asserts, "set")}
          = 1 .. previous_frame_count

\* The very first frame: tr() is read right after the frame was pushed.
C20_WitnessFirst ==
    /\ lastCall.op = "mapping"
    /\ lastCall.counters = 0
    /\ lastCall.asserts = <<[at |-> "tr", back_index |-> 0, counters |-> 1]>>

\* A correction before the ring is full: set was called for 1..count.
C20_WitnessPartial ==
    /\ lastCall.op = "mapping"
    /\ lastCall.result > 0
    /\ vo.local_maps.counters = 3
    /\ Cardinality(AssertedAt(lastCall.asserts, "set")) = 3

\* The step is a mapping() call that ran registration.
RegistrationCalled == lastCall'.op = "mapping" /\ lastCall'.registration.called

(* C21: in every mapping() call the fused map handed to registration is the *)
(* fused map recomputed from the slots and transforms the ring holds at     *)
(* that moment, also after a loop closure has rewritten ring transforms;    *)
(* a correction leaves the cache marked invalid.                            *)
C21_NoStaleLocalMap ==
    [][/\ RegistrationCalled =>
             lastCall'.registration.M = update_local_map(vo.local_maps)
       /\ (lastCall'.op = "mapping" /\ lastCall'.result > 0) =>
             vo'.local_maps.local_map_dirty]_vars

\* Registration ran in the call after one whose loop closure rewrote the
\* ring transforms, and the map it got places an uncorrected entry relative
\* to the corrected head.
C21_Witness ==
    /\ lastCall.op = "mapping"
    /\ lastCall.registration.called
    /\ lastCall.result = 0
    /\ vo.loop.loop # <<>>
    /\ \E k \in 1 .. Len(lastCall.registration.M) :
          /\ lastCall.registration.M[k].transform.init
          /\ lastCall.registration.M[k].transform.t[3] = 0 - 1

\* Registration ran on a cache that was still valid: the call before it was
\* not a keyframe.
C21_WitnessCached ==
    /\ lastCall.op = "mapping"
    /\ lastCall.registration.called
    /\ ~vo.local_maps.local_map_dirty
    /\ calls = MaxCalls
    /\ vo_pushes = lastCall.pushes
    /\ lastCall.Tr = JustBelow

\* Both members the worker reads have been assigned by the constructor.
MembersAssigned(su) == su.degenerate_threshold.assigned /\ su.livox_transform.init

(* C22: in every interleaving of the mapping_thread constructor with its    *)
(* worker and the producer, the worker reads degenerate_threshold only      *)
(* after the constructor assigned it, and processes a frame (reading        *)
(* livox_transform) only after the constructor assigned livox_transform: no *)
(* frame is processed while these members are unassigned.                   *)
C22_StartupOrdering ==
    /\ startup.mapping_v2_threshold.copied => startup.mapping_v2_threshold.assigned
    /\ \A k \in 1 .. Len(startup.processed) :
          /\ startup.processed[k].livox_transform.init
          /\ startup.processed[k].threshold_assigned

\* What the code guarantees: the worker runs only once started, a frame is
\* queued only through the appended handler, the constructor assigns both
\* members before it returns, and frames are processed in the order queued.
StartupOrderingAsBuilt ==
    /\ startup.w_pc # "not_started" => startup.thread_started
    /\ (startup.q # <<>> \/ startup.pq # <<>> \/ startup.processed # <<>>)
          => startup.subscribed /\ startup.thread_started
    /\ startup.ctor_pc = "done" => MembersAssigned(startup)
    /\ startup.mapping_v2_threshold.assigned => startup.ctor_pc = "done"
    /\ \A j, k \in 1 .. Len(startup.processed) :
          j < k => startup.processed[j].msg < startup.processed[k].msg

\* The worker copied degenerate_threshold before the constructor assigned
\* it: the registration threshold stays at what the memory held although
\* the parameter is 10.0.
StartupRaceThreshold ==
    /\ startup.ctor_pc = "done"
    /\ startup.param = degenerate_threshold
    /\ startup.mapping_v2_threshold.copied
    /\ startup.mapping_v2_threshold.value = 99

\* A frame was processed, with a pose returned, while livox_transform was
\* still unassigned.
StartupRaceLivox ==
    \E k \in 1 .. Len(startup.processed) :
       /\ startup.processed[k].has_value
       /\ ~startup.processed[k].livox_transform.init

\* The benign order: the constructor finished first, then the worker read
\* the assigned threshold and processed both frames.
StartupInOrder ==
    /\ startup.mapping_v2_threshold.assigned
    /\ startup.mapping_v2_threshold.value = startup.param
    /\ Len(startup.processed) = MaxStartupFrames
    /\ \A k \in 1 .. Len(startup.processed) : startup.processed[k].livox_transform.init

\* The last mapping() call promoted its frame to a keyframe and returned a
\* pose.
Promoted ==
    /\ lastCall.op = "mapping"
    /\ lastCall.has_value
    /\ vo_pushes = lastCall.pushes + 1

(* C23: whenever mapping() promotes a frame to a keyframe and returns a     *)
(* pose, the pose returned is local_maps.tr() at the return: the pushed M   *)
(* when loop closure is off or reports no change, and loop.btr(1), which    *)
(* set(1, ...) also wrote to the head, when a correction was applied.       *)
C23_ReturnedPoseIsHead ==
    Promoted =>
       /\ lastCall.value = tr(vo.local_maps)
       /\ lastCall.value = vo.local_maps.prev_frame_location[BackSlot(vo.local_maps, 1)]
       /\ lastCall.result > 0 => lastCall.value = loop_var_btr(vo.loop, 1)

\* A correction on a full, wrapped ring: the corrected pose was returned
\* and is the head.
C23_Witness ==
    /\ Promoted
    /\ lastCall.result > 0
    /\ lastCall.counters = previous_frame_count
    /\ vo.local_maps.head < previous_frame_count - 1
    /\ lastCall.value.init
    /\ lastCall.value.t[3] = 1
    /\ tr(vo.local_maps).t[3] = 1

\* A keyframe with loop closure disabled: the pushed pose was returned.
C23_WitnessNoLoop ==
    /\ Promoted
    /\ ~vo.config.enable_loop
    /\ lastCall.counters > 0
    /\ lastCall.value = tr(vo.local_maps)
    /\ lastCall.value.t[3] = 0

\* A keyframe for which the loop module reported no change.
C23_WitnessNoChange ==
    /\ Promoted
    /\ vo.config.enable_loop
    /\ lastCall.result = 0
    /\ calls > 0
    /\ lastCall.counters > 0
    /\ lastCall.value = tr(vo.local_maps)

====
